---------------------------- MODULE Spec2Model ----------------------------
(***************************************************************************)
(* Model of the WhatsApp chat storage repository.                          *)
(*                                                                         *)
(*  Spec     : WhatsAppWebScraper (src/whatsapp_web_scraper.js): run(),    *)
(*             extractChatHistory() and saveChatToDatabase() against the   *)
(*             SQLite tables the scraper creates.                          *)
(*  SpecSync : the Sync Manager (chat_sync_manager.py, not in src/),       *)
(*             modelled from the specification and the sync_status table.  *)
(*  SpecApi  : the API client's retry loop (green_api_client.py, not in    *)
(*             src/), modelled from the specification.                     *)
(*  SpecScroll, SpecStore, SpecMedia : scrollMessageHistory, the storage   *)
(*             schema and the Media Manager.                               *)
(*  SpecFinalScan, SpecChatScan, SpecChatLoad, SpecAugustScan,             *)
(*  SpecAugustExport, SpecListScroll : the loops and the export of the     *)
(*             August 2025 search scripts and scrollChatList.              *)
(***************************************************************************)
EXTENDS Integers, Sequences, FiniteSets, TLC

VARIABLES
    \* ---- SQLite file ./whatsapp_messages.db (persists across runs)
    contacts,      \* rows of table contacts
    chats,         \* rows of table chats
    messages,      \* rows of table messages
    seq,           \* sqlite_sequence: last AUTOINCREMENT id used per table
    \* ---- environment of the scraper
    remote,        \* the conversation panel of each chat: name -> page (oldest first)
    stmtDb,        \* whether the receiver of a db.run callback has a db
    now,           \* last value Date.now() returned
    runs,          \* number of times the program has been started
    faults,        \* history: errors the environment has raised so far
    \* ---- WhatsAppWebScraper instance and the position of run()
    pc,
    isLoggedIn,
    dbOpen,
    browserOpen,
    chatList,      \* const chats = await this.extractAllChats()
    i,             \* loop index of run() (1-based here)
    curMsgs,       \* const messages = await this.extractChatHistory(chat, 2000)
    save,          \* the pending saveChatToDatabase() call: promise and callbacks
    exported,      \* outcome of the last exportToJSON() call and the document written
    \* ---- Sync Manager (SpecSync)
    histLen,       \* the provider holds messages 1..histLen of chat X (oldest first)
    stored,        \* whatsapp_message_id of the message rows of chat X
    cursor,        \* sync_status.last_synced_message_id (0: none)
    synced,        \* sync_status.total_messages_synced
    syncPc,
    page,          \* the page (or lookback window) in flight
    inFlight,      \* in-memory position of the running sync (lost on interrupt)
    pageSize,
    lookback,
    paged,         \* history: ids of the pages whose cursor advance was done
    interrupts,    \* history: number of interruptions
    added,         \* history: number of messages the provider added
    \* ---- API client (SpecApi)
    ceiling,       \* retry ceiling R of the call
    attempts,      \* requests issued so far
    responses,     \* the responses received, in order
    callResult,    \* "pending", "success" or "failure"
    backoff,       \* delay before the next attempt
    \* ---- scrollMessageHistory (SpecScroll)
    maxMessages,   \* the limit it was called with
    total,         \* messages the chat has
    domCount,      \* msg-container elements in the document
    messageCount,
    previousCount,
    scrollPc,      \* "test", "scroll", "count", "done" or "threw"
    polled,        \* history: a count was taken
    lastGain,      \* history: containers the last count found beyond the one before
    \* ---- Storage schema of the API sync (SpecStore)
    chatRows,      \* rows of table chats (chat_type, contact_id, group_id)
    syncStatus,    \* rows of table sync_status
    storeSeq,      \* last AUTOINCREMENT id used per table
    refused,       \* history: the constraints that have refused a statement
    \* ---- Media Manager (SpecMedia)
    queue,         \* rows of table media_download_queue
    files,         \* the files stored under the media root, by content hash
    mediaSeq,      \* last queue_id used
    enqCount,      \* history: enqueue calls per media URL
    skipped,       \* history: messages for which an enqueue found a task
    errLog,        \* history: <<queue_id, n>>, the n-th download error of a task
    \* ---- the August 2025 search scripts (one record of locals per function)
    finalScan,     \* FinalAugustSearch.scanAllChatsForAugust
    chatScan,      \* the per-chat scan loop (quickScanForAugust / scanChatForAugust)
    chatLoad,      \* UseExistingSession.getAllChats
    augustScan,    \* UseExistingSession.scanForAugustMessages
    augustExport,  \* the export of the found chats
    listScroll     \* WhatsAppWebScraper.scrollChatList

dbVars      == <<contacts, chats, messages, seq>>
scraperVars == <<contacts, chats, messages, seq, remote, stmtDb, exported, now, runs, faults,
                 pc, isLoggedIn, dbOpen, browserOpen, chatList, i, curMsgs, save,
                 exported>>
syncVars    == <<histLen, stored, cursor, synced, syncPc, page, inFlight,
                 pageSize, lookback, paged, interrupts, added>>
apiVars     == <<ceiling, attempts, responses, callResult, backoff>>
scrollVars  == <<maxMessages, total, domCount, messageCount, previousCount,
                 scrollPc, polled, lastGain>>
storeVars   == <<chatRows, syncStatus, storeSeq, refused>>
mediaVars   == <<queue, files, mediaSeq, enqCount, skipped, errLog>>
augustVars  == <<finalScan, chatScan, chatLoad, augustScan, augustExport, listScroll>>
auxVars     == <<scrollVars, storeVars, mediaVars, augustVars>>
coreVars    == <<scraperVars, syncVars, apiVars, scrollVars, storeVars, mediaVars>>
vars        == <<scraperVars, syncVars, apiVars, auxVars>>

-----------------------------------------------------------------------------
(* Bounds of the model *)

MaxMsgs  == 2      \* message containers on a conversation panel
MaxChats == 2      \* entries of the chat list
MaxRuns  == 2      \* starts of the program against the same database file
MaxClock == 2      \* distinct readings of Date.now()
MaxFaults == 2     \* errors the environment raises in one behaviour

\* display names of the chats, in the order the chat list shows them
ChatOrder == <<"A", "B", "C", "D">>
Names     == {ChatOrder[k] : k \in 1..MaxChats}

userPhone == "972549990001"
NoPhone   == "null"

-----------------------------------------------------------------------------
(* Sequences *)

RECURSIVE Reverse(_)
Reverse(s) == IF s = <<>> THEN <<>> ELSE Append(Reverse(Tail(s)), Head(s))

SeqsUpTo(S, n) == UNION {[1..k -> S] : k \in 0..n}

Range(s) == {s[k] : k \in DOMAIN s}

-----------------------------------------------------------------------------
(* The conversation panel: [data-testid="msg-container"] elements in       *)
(* document order, which WhatsApp Web renders oldest first.                *)

\* a text bubble, a media bubble, and a container with neither
TextElement  == [hasText |-> TRUE,  text |-> "hi", hasMedia |-> FALSE,
                 time |-> "10:01", out |-> FALSE]
MediaElement == [hasText |-> FALSE, text |-> "",   hasMedia |-> TRUE,
                 time |-> "10:02", out |-> TRUE]
BlankElement == [hasText |-> FALSE, text |-> "",   hasMedia |-> FALSE,
                 time |-> "10:03", out |-> FALSE]

Elements == {TextElement, MediaElement, BlankElement}
Pages    == SeqsUpTo(Elements, MaxMsgs)

\* content / messageType of one container (lines 336-348)
ContentOf(e) == IF e.hasText THEN e.text
                ELSE IF e.hasMedia THEN "[Media message]" ELSE ""
TypeOf(e)    == IF ~e.hasText /\ e.hasMedia THEN "media" ELSE "text"

\* if (content || messageType === 'media')
Kept(e) == ContentOf(e) # "" \/ TypeOf(e) = "media"

ParseMessage(e, chatName) ==
    [content     |-> ContentOf(e),
     timestamp   |-> e.time,
     isOutgoing  |-> e.out,
     messageType |-> TypeOf(e),
     senderName  |-> IF e.out THEN "You" ELSE chatName,
     senderPhone |-> IF e.out THEN userPhone ELSE NoPhone]

\* messageElements.forEach(... messages.push(...)): document order
RECURSIVE PushMessages(_, _)
PushMessages(p, chatName) ==
    IF p = <<>> THEN <<>>
    ELSE IF Kept(Head(p))
         THEN <<ParseMessage(Head(p), chatName)>> \o PushMessages(Tail(p), chatName)
         ELSE PushMessages(Tail(p), chatName)

\* return messages.reverse()
ExtractMessages(p, chatName) == Reverse(PushMessages(p, chatName))

-----------------------------------------------------------------------------
(* SQLite statements of saveChatToDatabase.  No PRAGMA foreign_keys is     *)
(* issued, so the FOREIGN KEY clauses of createTables are not enforced.    *)
(* The callbacks of db.run are function(err) callbacks: this.lastID and    *)
(* this.db are read from the receiver the sqlite3 binding calls them with. *)
(* this.lastID is the id of the row just inserted; whether that receiver   *)
(* has a db is the binding's choice (stmtDb).  Without it `this.db.run`    *)
(* throws a TypeError out of the callback and the process ends.            *)

\* INSERT OR REPLACE INTO contacts (phone, name): phone is UNIQUE
InsertOrReplaceContact(rows, id, phone, name) ==
    {r \in rows : r.phone # phone} \cup {[id |-> id, phone |-> phone, name |-> name]}

\* INSERT OR REPLACE INTO chats (...): whatsapp_id is UNIQUE
InsertOrReplaceChat(rows, id, chatInfo, contactId) ==
    {r \in rows : r.whatsapp_id # chatInfo.name}
      \cup {[id |-> id, whatsapp_id |-> chatInfo.name, contact_id |-> contactId,
             chat_name |-> chatInfo.name, is_group |-> FALSE,
             unread_count |-> chatInfo.unreadCount]}

\* const messageId = `${chatInfo.name}_${index}_${Date.now()}` (index is 0-based);
\* the three parts are kept apart: the string determines them
MessageIdNoIndex(name, index, t) == <<name, 0, t>>
MessageId(name, index, t) == <<name, index, t>>

\* the row stmt.run binds for one message
MessageRow(id, chatId, m, messageId) ==
    [id |-> id, chat_id |-> chatId, sender_name |-> m.senderName,
     sender_phone |-> m.senderPhone, content |-> m.content,
     message_type |-> m.messageType, timestamp |-> m.timestamp,
     is_outgoing |-> IF m.isOutgoing THEN 1 ELSE 0,
     whatsapp_message_id |-> messageId]

\* INSERT OR REPLACE INTO messages: the only key of the table is the
\* AUTOINCREMENT id, which the statement does not bind, so it always inserts
ReplaceMessageById(rows, row) ==
    {r \in rows : r.whatsapp_message_id # row.whatsapp_message_id} \cup {row}
InsertOrReplaceMessage(rows, row) == rows \cup {row}

-----------------------------------------------------------------------------
(* WhatsAppWebScraper *)

NoChat == [index |-> 0, name |-> "", unreadCount |-> 0]

\* the entries extractAllChats pushes: the first n chats of the list, as far
\* as scrollChatList loaded it
ChatInfo(name, k) == [index |-> k - 1, name |-> name, unreadCount |-> 0]
ChatLists == {[k \in 1..n |-> ChatInfo(ChatOrder[k], k)] : n \in 0..MaxChats}

IdleSave == [stage |-> "idle", promise |-> "none", chat |-> NoChat,
             msgs |-> <<>>, ids |-> <<>>, contactId |-> 0, chatId |-> 0,
             fired |-> 0, savedCount |-> 0, errors |-> 0, logged |-> 0,
             finalizeCalls |-> 0, resolveCalls |-> 0]

\* every statement the pending save queued has had its callback
Drained == \/ save.stage = "idle"
           \/ save.stage = "msgs" /\ save.fired = Len(save.msgs)

\* run() awaits a saveChatToDatabase promise no callback is left to settle
Wedged == pc = "await_save" /\ save.promise = "pending" /\ Drained

\* the columns of table contacts, and the columns findAugust2025Messages
\* selects from it
ContactColumns == {"id", "phone", "name", "profile_pic_url", "last_seen",
                   "created_at", "updated_at"}
AugustColumns  == {"chat_name", "id"}

\* ---- exportToJSON
NoExport == [result |-> "none", data |-> <<>>]

\* timestamp is a TEXT column: ORDER BY compares the strings
TimeRank(t) == CASE t = "10:01" -> 1 [] t = "10:02" -> 2 [] OTHER -> 3

\* FROM messages m JOIN chats ch ON m.chat_id = ch.id
\*                 JOIN contacts c ON ch.contact_id = c.id
JoinedRows ==
    {r \in [m : messages, ch : chats, c : contacts] :
        r.m.chat_id = r.ch.id /\ r.ch.contact_id = r.c.id}

\* the rows of one chat_name in an order ORDER BY ..., m.timestamp ASC allows
\* (rows with equal timestamps come in any order)
OrderedRows(rows) ==
    {o \in [1..Cardinality(rows) -> rows] :
        /\ \A a, b \in DOMAIN o : a < b =>
              /\ o[a] # o[b]
              /\ TimeRank(o[a].m.timestamp) <= TimeRank(o[b].m.timestamp)}

\* the object pushed for one row
ExportMessage(r) ==
    [sender |-> r.m.sender_name, senderPhone |-> r.m.sender_phone,
     content |-> r.m.content, type |-> r.m.message_type,
     timestamp |-> r.m.timestamp, isOutgoing |-> (r.m.is_outgoing = 1)]

\* exportData for the rows of the query
ExportDataOf(rows, date) ==
    LET names == {r.ch.chat_name : r \in rows}
        of(n) == {r \in rows : r.ch.chat_name = n}
        lists(n) == {[k \in DOMAIN o |-> ExportMessage(o[k])] : o \in OrderedRows(of(n))}
        first(n) == CHOOSE r \in of(n) : \A q \in of(n) :
                        TimeRank(r.m.timestamp) <= TimeRank(q.m.timestamp)
    IN  {[exportDate |-> date, userPhone |-> userPhone,
          totalMessages |-> Cardinality(rows),
          chats |-> [n \in names |->
                       [contactName |-> first(n).c.name,
                        isGroup |-> first(n).ch.is_group,
                        messages |-> f[n]]]] :
           f \in {g \in [names -> UNION {lists(n) : n \in names}] :
                    \A n \in names : g[n] \in lists(n)}}
ExportDocs(date) == ExportDataOf(JoinedRows, date)

\* whether the environment raises an error at this step
Errors == IF faults < MaxFaults THEN BOOLEAN ELSE {FALSE}
Raise(err) == faults' = IF err THEN faults + 1 ELSE faults

\* successive Date.now() readings of one forEach, starting from reading lo
ClockReadings(n, lo) ==
    {s \in [1..n -> lo..MaxClock] : \A k \in 1..(n - 1) : s[k] <= s[k + 1]}

ScraperInit ==
    /\ contacts = {} /\ chats = {} /\ messages = {}
    /\ seq = [contacts |-> 0, chats |-> 0, messages |-> 0]
    /\ remote \in [Names -> Pages]
    /\ stmtDb \in BOOLEAN
    /\ now = 1
    /\ runs = 1
    /\ faults = 0
    /\ pc = "start"
    /\ isLoggedIn = FALSE /\ dbOpen = FALSE /\ browserOpen = FALSE
    /\ chatList = <<>> /\ i = 0 /\ curMsgs = <<>>
    /\ save = IdleSave
    /\ exported = NoExport

\* initialize(): open the database, create the tables, launch the browser
Initialize ==
    /\ pc = "start"
    /\ \E outcome \in IF TRUE \in Errors
                       THEN {"ok", "db_error", "launch_error"} ELSE {"ok"} :
         /\ Raise(outcome # "ok")
         /\ dbOpen' = TRUE            \* this.db is assigned before the open callback
         /\ browserOpen' = (outcome = "ok")
         /\ pc' = IF outcome = "ok" THEN "connect" ELSE "finally"
    /\ UNCHANGED <<syncVars, apiVars, auxVars>>
    /\ UNCHANGED <<dbVars, remote, stmtDb, exported, now, runs, isLoggedIn, chatList, i, curMsgs, save>>

\* this.isLoggedIn after connectToWhatsApp: the assignments follow the two
\* waits for the chat list
SetBeforeWait(was, seen) == TRUE
IsLoggedInAfter(was, seen) == was \/ seen

\* connectToWhatsApp(): true once the chat list was seen (at the first wait,
\* or after the QR code was scanned), false on any error
ConnectToWhatsApp ==
    /\ pc = "connect"
    /\ \E err \in Errors : LET connected == ~err IN
         /\ Raise(err)
         /\ isLoggedIn' = IsLoggedInAfter(isLoggedIn, connected)
         /\ pc' = IF connected THEN "extract_chats" ELSE "finally"
    /\ UNCHANGED <<syncVars, apiVars, auxVars>>
    /\ UNCHANGED <<dbVars, remote, stmtDb, exported, now, runs, dbOpen, browserOpen, chatList, i,
                   curMsgs, save>>

\* what extractAllChats() returns when the page shows the entries `found`
ExtractedChats(loggedIn, found) == IF loggedIn THEN found ELSE <<>>

\* extractAllChats() and the test on chats.length in run()
ExtractAllChats ==
    /\ pc = "extract_chats"
    /\ \E found \in ChatLists :
         LET list == ExtractedChats(isLoggedIn, found)
         IN  /\ chatList' = list
             /\ UNCHANGED faults
             /\ i' = IF list = <<>> THEN 0 ELSE 1
             /\ pc' = IF list = <<>> THEN "finally" ELSE "extract_history"
    /\ UNCHANGED <<syncVars, apiVars, auxVars>>
    /\ UNCHANGED <<dbVars, remote, stmtDb, exported, now, runs, isLoggedIn, dbOpen, browserOpen,
                   curMsgs, save>>

\* extractChatHistory(chat, 2000): [] when the chat element is missing or
\* anything throws, else the parsed containers; then `if (messages.length > 0)`
ExtractChatHistory ==
    /\ pc = "extract_history"
    /\ \E err \in Errors :
         LET msgs == IF ~err THEN ExtractMessages(remote[chatList[i].name],
                                                chatList[i].name)
                     ELSE <<>>
         IN  /\ curMsgs' = msgs
             /\ Raise(err)
             /\ pc' = IF Len(msgs) > 0 THEN "save_call" ELSE "delay"
    /\ UNCHANGED <<syncVars, apiVars, auxVars>>
    /\ UNCHANGED <<dbVars, remote, stmtDb, exported, now, runs, isLoggedIn, dbOpen, browserOpen,
                   chatList, i, save>>

\* saveChatToDatabase(chat, messages) is called: the promise is created and
\* the contact statement queued (the database runs statements in queue order,
\* so the statements of the previous call come first)
SaveChatToDatabase ==
    /\ pc = "save_call"
    /\ Drained
    /\ Len(curMsgs) > 0
    /\ save' = [IdleSave EXCEPT !.stage = "contact", !.promise = "pending",
                                !.chat = chatList[i], !.msgs = curMsgs]
    /\ pc' = "await_save"
    /\ UNCHANGED faults
    /\ UNCHANGED <<syncVars, apiVars, auxVars>>
    /\ UNCHANGED <<dbVars, remote, stmtDb, exported, now, runs, isLoggedIn, dbOpen, browserOpen,
                   chatList, i, curMsgs>>

\* callback of db.run(insertContact)
InsertContactCallback ==
    /\ save.stage = "contact"
    /\ \E err \in Errors :
       /\ Raise(err)
       /\ IF err
         THEN /\ save' = [save EXCEPT !.stage = "idle", !.promise = "rejected",
                                       !.errors = @ + 1]
              /\ UNCHANGED dbVars
         ELSE LET id == seq.contacts + 1
              IN  /\ contacts' = InsertOrReplaceContact(contacts, id,
                                     save.chat.name, save.chat.name)
                  /\ seq' = [seq EXCEPT !.contacts = id]
                  /\ save' = IF stmtDb
                              THEN [save EXCEPT !.stage = "chat", !.contactId = id]
                              ELSE [save EXCEPT !.stage = "idle", !.contactId = id]
                  /\ UNCHANGED <<chats, messages>>
       /\ pc' = IF ~err /\ ~stmtDb THEN "crashed" ELSE pc
    /\ UNCHANGED <<syncVars, apiVars, auxVars>>
    /\ UNCHANGED <<remote, stmtDb, exported, now, runs, isLoggedIn, dbOpen, browserOpen,
                   chatList, i, curMsgs>>

\* callback of db.run(insertChat); on success messages.forEach builds the
\* message ids and queues one stmt.run per message
InsertChatCallback ==
    /\ save.stage = "chat"
    /\ \E err \in Errors :
       /\ Raise(err)
       /\ IF err
         THEN /\ save' = [save EXCEPT !.stage = "idle", !.promise = "rejected",
                                       !.errors = @ + 1]
              /\ UNCHANGED <<dbVars, now>>
         ELSE LET id == seq.chats + 1
                  n  == Len(save.msgs)
              IN  \E ts \in ClockReadings(n, now) :
                    /\ chats' = InsertOrReplaceChat(chats, id, save.chat,
                                                    save.contactId)
                    /\ seq' = [seq EXCEPT !.chats = id]
                    /\ now' = ts[n]
                    /\ save' = [save EXCEPT
                                  !.stage = "msgs", !.chatId = id,
                                  !.ids = [k \in 1..n |->
                                             MessageId(save.chat.name, k - 1, ts[k])]]
                    /\ UNCHANGED <<contacts, messages>>
    /\ UNCHANGED <<syncVars, apiVars, auxVars>>
    /\ UNCHANGED <<remote, stmtDb, exported, runs, pc, isLoggedIn, dbOpen, browserOpen,
                   chatList, i, curMsgs>>

\* the next stmt.run executes and its callback fires
MessageInsertCallback ==
    /\ save.stage = "msgs"
    /\ save.fired < Len(save.msgs)
    /\ \E err \in Errors :
         LET k      == save.fired + 1
             id     == seq.messages + 1
             count  == IF err THEN save.savedCount ELSE save.savedCount + 1
             done   == (count + 1 = Len(save.msgs))
         IN  /\ Raise(err)
             /\ IF err
                THEN UNCHANGED <<messages, seq>>
                ELSE /\ messages' = InsertOrReplaceMessage(messages,
                                       MessageRow(id, save.chatId, save.msgs[k],
                                                  save.ids[k]))
                     /\ seq' = [seq EXCEPT !.messages = id]
             /\ save' = [save EXCEPT
                           !.fired = k,
                           !.savedCount = count,
                           !.errors = IF err THEN @ + 1 ELSE @,
                           !.logged = IF done THEN count ELSE @,
                           !.finalizeCalls = IF done THEN @ + 1 ELSE @,
                           !.resolveCalls = IF done THEN @ + 1 ELSE @,
                           !.promise = IF done /\ @ = "pending"
                                       THEN "resolved" ELSE @]
    /\ UNCHANGED <<syncVars, apiVars, auxVars>>
    /\ UNCHANGED <<contacts, chats, remote, stmtDb, exported, now, runs, pc, isLoggedIn, dbOpen,
                   browserOpen, chatList, i, curMsgs>>

\* `await this.saveChatToDatabase(...)` returns, or throws into the per-chat
\* catch, which logs
AwaitSave ==
    /\ pc = "await_save"
    /\ save.promise \in {"resolved", "rejected"}
    /\ pc' = "delay"
    /\ UNCHANGED faults
    /\ UNCHANGED <<syncVars, apiVars, auxVars>>
    /\ UNCHANGED <<dbVars, remote, stmtDb, exported, now, runs, isLoggedIn, dbOpen, browserOpen,
                   chatList, i, curMsgs, save>>

\* await this.page.waitForTimeout(1000); i++
DelayBetweenChats ==
    /\ pc = "delay"
    /\ i' = i + 1
    /\ pc' = IF i + 1 <= Len(chatList) THEN "extract_history" ELSE "find_august"
    /\ UNCHANGED faults
    /\ UNCHANGED <<syncVars, apiVars, auxVars>>
    /\ UNCHANGED <<dbVars, remote, stmtDb, exported, now, runs, isLoggedIn, dbOpen, browserOpen,
                   chatList, curMsgs, save>>

\* findAugust2025Messages(): a query, queued behind the pending statements.
\* It selects c.chat_name where c is table contacts, which has no such column:
\* the query never prepares, the promise rejects and run() goes to its catch,
\* so the exportToJSON call of run() is never reached.
FindAugust2025Messages ==
    /\ pc = "find_august"
    /\ Drained
    /\ pc' = IF AugustColumns \subseteq ContactColumns THEN "export" ELSE "finally"
    /\ UNCHANGED faults
    /\ UNCHANGED <<syncVars, apiVars, auxVars>>
    /\ UNCHANGED <<dbVars, remote, stmtDb, exported, now, runs, isLoggedIn, dbOpen, browserOpen,
                   chatList, i, curMsgs, save>>

\* exportToJSON(filename), called on the database by a user of the class
\* while no run is in progress: the query, the document, the file
ExportToJSON ==
    /\ pc \in {"closed", "crashed"}
    /\ exported.result = "none"
    /\ \E err \in Errors :
         /\ Raise(err)
         /\ IF err
            THEN exported' = [NoExport EXCEPT !.result = "rejected"]
            ELSE \E doc \in ExportDocs(now) :
                    exported' = [result |-> "resolved", data |-> doc]
    /\ UNCHANGED <<syncVars, apiVars, auxVars>>
    /\ UNCHANGED <<dbVars, remote, stmtDb, now, runs, pc, isLoggedIn, dbOpen,
                   browserOpen, chatList, i, curMsgs, save>>

\* finally { await this.close() }
Close ==
    /\ pc = "finally"
    /\ Drained
    /\ dbOpen' = FALSE
    /\ browserOpen' = FALSE
    /\ pc' = "closed"
    /\ UNCHANGED faults
    /\ UNCHANGED <<syncVars, apiVars, auxVars>>
    /\ UNCHANGED <<dbVars, remote, stmtDb, exported, now, runs, isLoggedIn, chatList, i, curMsgs, save>>

\* the program is started again on the same database file: after it ended
\* or crashed, or after a run that hangs was killed
RunAgain ==
    /\ pc \in {"closed", "crashed"} \/ Wedged
    /\ runs < MaxRuns
    /\ runs' = runs + 1
    /\ pc' = "start"
    /\ isLoggedIn' = FALSE /\ dbOpen' = FALSE /\ browserOpen' = FALSE
    /\ chatList' = <<>> /\ i' = 0 /\ curMsgs' = <<>>
    /\ save' = IdleSave
    /\ exported' = NoExport
    /\ UNCHANGED <<syncVars, apiVars, auxVars>>
    /\ UNCHANGED <<dbVars, remote, stmtDb, now, faults>>

\* the steps of one run
RunStep ==
    \/ Initialize
    \/ ConnectToWhatsApp
    \/ ExtractAllChats
    \/ ExtractChatHistory
    \/ SaveChatToDatabase
    \/ InsertContactCallback
    \/ InsertChatCallback
    \/ MessageInsertCallback
    \/ AwaitSave
    \/ DelayBetweenChats
    \/ FindAugust2025Messages
    \/ Close

-----------------------------------------------------------------------------
(* Sync Manager: syncChat over the paginated history of one chat, with the *)
(* SyncCursor of table sync_status (last_synced_message_id,                *)
(* total_messages_synced).  chat_sync_manager.py is not part of src/; the  *)
(* steps follow the specification: fetch a page from the cursor, upsert    *)
(* its rows, then advance the cursor.                                      *)

MaxHist       == 3     \* messages of the chat when the first sync starts
MaxPage       == 2     \* pageSize
MaxLookback   == 2     \* lookback N of an incremental run
MaxInterrupts == 2     \* interruptions of a sync
MaxAdded      == 2     \* messages the provider adds after the full sync

\* the lookback of the example scenario
ExampleLookback == 10

Lookbacks == (1..MaxLookback) \cup {ExampleLookback}

Min(a, b) == IF a <= b THEN a ELSE b

\* fetchChatHistory(chatId, cursor, pageSize): the page after `cur`, oldest
\* first; empty at the end of the history
NextPage(cur, n, size) == [k \in 1..(Min(cur + size, n) - cur) |-> cur + k]

\* upsert by provider identifier: a row whose identifier exists is left alone
UpsertAll(rows, ids) == rows \cup ids

\* where a (re)started sync begins: the stored SyncCursor
ResumeFromStart(cur) == 0
ResumePoint(cur) == cur

\* the order of the steps of one page
PageStepCursorFirst(stage) ==
    CASE stage = "fetch"   -> "advance"
      [] stage = "advance" -> "commit"
      [] stage = "commit"  -> "fetch"
PageStep(stage) ==
    CASE stage = "fetch"   -> "commit"
      [] stage = "commit"  -> "advance"
      [] stage = "advance" -> "fetch"

\* the N most recent messages, newest first
Window(n, size) == [k \in 1..Min(size, n) |-> n + 1 - k]

\* the messages of a newest-first window up to the first known identifier
WholeWindow(w, known) == w
RECURSIVE NewPrefix(_, _)
NewPrefix(w, known) ==
    IF w = <<>> \/ Head(w) \in known THEN <<>>
    ELSE <<Head(w)>> \o NewPrefix(Tail(w), known)

\* a sync of a chat of n messages that nothing interrupts
RECURSIVE SyncFrom(_, _, _)
SyncFrom(st, n, size) ==
    LET pg == NextPage(st.cursor, n, size)
    IN  IF pg = <<>> THEN st
        ELSE SyncFrom([stored |-> UpsertAll(st.stored, Range(pg)),
                       cursor |-> pg[Len(pg)],
                       synced |-> st.synced + Len(pg)], n, size)
Uninterrupted(n, size) ==
    SyncFrom([stored |-> {}, cursor |-> 0, synced |-> 0], n, size)

SyncInit ==
    /\ histLen \in 0..MaxHist
    /\ stored = {} /\ cursor = 0 /\ synced = 0
    /\ syncPc = "idle" /\ page = <<>> /\ inFlight = 0
    /\ pageSize \in 1..MaxPage
    /\ lookback \in Lookbacks
    /\ paged = {} /\ interrupts = 0 /\ added = 0

\* syncChat starts, or is resumed after an interruption
StartSync ==
    /\ syncPc = "idle"
    /\ inFlight' = ResumePoint(cursor)
    /\ syncPc' = "fetch"
    /\ UNCHANGED <<histLen, stored, cursor, synced, page, pageSize, lookback,
                   paged, interrupts, added>>
    /\ UNCHANGED <<scraperVars, apiVars, auxVars>>

\* one page is fetched; an empty page ends the sync
FetchPage ==
    /\ syncPc = "fetch"
    /\ LET pg == NextPage(inFlight, histLen, pageSize)
       IN  /\ page' = pg
           /\ syncPc' = IF pg = <<>> THEN "done" ELSE PageStep("fetch")
    /\ UNCHANGED <<histLen, stored, cursor, synced, inFlight, pageSize, lookback,
                   paged, interrupts, added>>
    /\ UNCHANGED <<scraperVars, apiVars, auxVars>>

\* the rows of the page are committed
CommitPage ==
    /\ syncPc = "commit"
    /\ stored' = UpsertAll(stored, Range(page))
    /\ syncPc' = PageStep("commit")
    /\ UNCHANGED <<histLen, cursor, synced, page, inFlight, pageSize, lookback,
                   paged, interrupts, added>>
    /\ UNCHANGED <<scraperVars, apiVars, auxVars>>

\* the SyncCursor is advanced to the last message of the page
AdvanceCursor ==
    /\ syncPc = "advance"
    /\ cursor' = page[Len(page)]
    /\ synced' = synced + Len(page)
    /\ inFlight' = page[Len(page)]
    /\ paged' = paged \cup Range(page)
    /\ syncPc' = PageStep("advance")
    /\ UNCHANGED <<histLen, stored, page, pageSize, lookback, interrupts, added>>
    /\ UNCHANGED <<scraperVars, apiVars, auxVars>>

\* the run is interrupted: what the sync held in memory is lost, the tables
\* keep what was committed
Interrupt ==
    /\ syncPc \in {"fetch", "commit", "advance", "inc_fetch", "inc_commit",
                   "inc_advance"}
    /\ interrupts < MaxInterrupts
    /\ interrupts' = interrupts + 1
    /\ syncPc' = IF syncPc \in {"fetch", "commit", "advance"} THEN "idle"
                 ELSE "inc_idle"
    /\ page' = <<>>
    /\ inFlight' = 0
    /\ UNCHANGED <<histLen, stored, cursor, synced, pageSize, lookback, paged, added>>
    /\ UNCHANGED <<scraperVars, apiVars, auxVars>>

\* the provider receives a new message of the chat
ProviderAdds ==
    /\ syncPc \in {"done", "inc_idle"}
    /\ added < MaxAdded
    /\ histLen' = histLen + 1
    /\ added' = added + 1
    /\ UNCHANGED <<stored, cursor, synced, syncPc, page, inFlight, pageSize,
                   lookback, paged, interrupts>>
    /\ UNCHANGED <<scraperVars, apiVars, auxVars>>

\* an incremental run starts
StartIncremental ==
    /\ syncPc \in {"done", "inc_idle"}
    /\ syncPc' = "inc_fetch"
    /\ UNCHANGED <<histLen, stored, cursor, synced, page, inFlight, pageSize,
                   lookback, paged, interrupts, added>>
    /\ UNCHANGED <<scraperVars, apiVars, auxVars>>

\* bounded lookback: the N most recent messages, newest first
FetchWindow ==
    /\ syncPc = "inc_fetch"
    /\ page' = Window(histLen, lookback)
    /\ syncPc' = "inc_commit"
    /\ UNCHANGED <<histLen, stored, cursor, synced, inFlight, pageSize, lookback,
                   paged, interrupts, added>>
    /\ UNCHANGED <<scraperVars, apiVars, auxVars>>

\* the window is walked until a known identifier is seen; what came before
\* it is stored
CommitWindow ==
    /\ syncPc = "inc_commit"
    /\ LET new == NewPrefix(page, stored)
       IN  /\ page' = new
           /\ stored' = UpsertAll(stored, Range(new))
    /\ syncPc' = "inc_advance"
    /\ UNCHANGED <<histLen, cursor, synced, inFlight, pageSize, lookback,
                   paged, interrupts, added>>
    /\ UNCHANGED <<scraperVars, apiVars, auxVars>>

\* the SyncCursor moves to the newest message stored
AdvanceIncremental ==
    /\ syncPc = "inc_advance"
    /\ cursor' = IF page = <<>> THEN cursor ELSE Head(page)
    /\ synced' = synced + Len(page)
    /\ paged' = paged \cup Range(page)
    /\ syncPc' = "inc_idle"
    /\ UNCHANGED <<histLen, stored, page, inFlight, pageSize, lookback,
                   interrupts, added>>
    /\ UNCHANGED <<scraperVars, apiVars, auxVars>>

-----------------------------------------------------------------------------
(* API client: one call with its retry loop.  green_api_client.py is not   *)
(* part of src/; the loop follows the specification: a transient failure   *)
(* (5xx, network error, timeout) is retried after an exponential backoff   *)
(* up to the retry ceiling, a 4xx is fatal at once.                        *)

MaxRetry == 3          \* largest retry ceiling

Timeout  == 0
Statuses == {200, 401, 404, 500, 503, Timeout}

Transient(status) == status = Timeout \/ status >= 500

\* whether a call that has made `made` attempts may try again
MayRetryOnceMore(made, R) == made <= R + 1
MayRetry(made, R) == made <= R

ApiInit ==
    /\ ceiling \in 0..MaxRetry
    /\ attempts = 0
    /\ responses = <<>>
    /\ callResult = "pending"
    /\ backoff = 0

\* a request is sent and its response (or timeout) arrives
SendRequest ==
    /\ callResult = "pending"
    /\ \E status \in Statuses :
         /\ attempts' = attempts + 1
         /\ responses' = Append(responses, status)
         /\ callResult' = IF status = 200 THEN "success"
                          ELSE IF Transient(status) /\ MayRetry(attempts + 1, ceiling)
                               THEN "backoff"
                               ELSE "failure"
         /\ backoff' = IF status # 200 /\ Transient(status)
                          /\ MayRetry(attempts + 1, ceiling)
                       THEN 2 ^ attempts ELSE backoff
    /\ UNCHANGED ceiling
    /\ UNCHANGED <<scraperVars, syncVars, auxVars>>

\* the backoff delay has passed
BackoffElapsed ==
    /\ callResult = "backoff"
    /\ callResult' = "pending"
    /\ UNCHANGED <<ceiling, attempts, responses, backoff>>
    /\ UNCHANGED <<scraperVars, syncVars, auxVars>>

-----------------------------------------------------------------------------
(* Specifications *)

-----------------------------------------------------------------------------
(* scrollMessageHistory(maxMessages): scroll the conversation panel to the *)
(* top, wait, count the msg-container elements, until a count finds        *)
(* nothing new or the limit is reached.  The chat has `total` messages;    *)
(* containers once loaded stay in the document.                            *)

MaxTotal == 3          \* messages of the chat
MaxLimit == 4          \* maxMessages

\* if (messageCount === previousCount) break
NeverAtStart(count, prev) == FALSE
NoNewMessages(count, prev) == count = prev

ScrollInit ==
    /\ maxMessages \in 0..MaxLimit
    /\ total \in 0..MaxTotal
    /\ domCount \in 0..total
    /\ messageCount = 0 /\ previousCount = 0
    /\ scrollPc = "test"
    /\ polled = FALSE /\ lastGain = 0

\* while (messageCount < maxMessages)
LoopTest ==
    /\ scrollPc = "test"
    /\ scrollPc' = IF messageCount < maxMessages THEN "scroll" ELSE "done"
    /\ UNCHANGED <<maxMessages, total, domCount, messageCount, previousCount,
                   polled, lastGain>>
    /\ UNCHANGED <<scraperVars, syncVars, apiVars, augustVars, storeVars, mediaVars>>

\* panel.scrollTop = 0; waitForTimeout(1000): the page loads older messages,
\* or none; page.evaluate may throw
ScrollToTop ==
    /\ scrollPc = "scroll"
    /\ \/ /\ domCount' \in domCount..total
          /\ scrollPc' = "count"
       \/ /\ scrollPc' = "threw"
          /\ UNCHANGED domCount
    /\ UNCHANGED <<maxMessages, total, messageCount, previousCount, polled, lastGain>>
    /\ UNCHANGED <<scraperVars, syncVars, apiVars, augustVars, storeVars, mediaVars>>

\* messageCount = querySelectorAll(...).length and the two break tests
CountMessages ==
    /\ scrollPc = "count"
    /\ messageCount' = domCount
    /\ polled' = TRUE
    /\ lastGain' = domCount - previousCount
    /\ IF NoNewMessages(domCount, previousCount)
       THEN /\ scrollPc' = "done"
            /\ UNCHANGED previousCount
       ELSE /\ previousCount' = domCount
            /\ scrollPc' = IF domCount >= maxMessages THEN "done" ELSE "test"
    /\ UNCHANGED <<maxMessages, total, domCount>>
    /\ UNCHANGED <<scraperVars, syncVars, apiVars, augustVars, storeVars, mediaVars>>

ScrollAtRest ==
    /\ maxMessages = 0 /\ total = 0 /\ domCount = 0
    /\ messageCount = 0 /\ previousCount = 0
    /\ scrollPc = "test" /\ polled = FALSE /\ lastGain = 0

-----------------------------------------------------------------------------
(* Storage: tables chats and sync_status of the API sync schema, with the  *)
(* constraints SQLite enforces on them (CHECK, NOT NULL, UNIQUE).  The      *)
(* statements are those of any client of the schema: inserts and updates   *)
(* with arbitrary values.  database_manager.py is not part of src/; the    *)
(* progress update of sync_status follows the specification.               *)

MaxSynced == 3         \* largest total_messages_synced

NULL == 0
WhatsAppChatIds == {"X", "Y"}
ChatTypes == {"private", "group", "other"}
Refs == {NULL, 1}

\* CHECK ((chat_type = 'private' AND contact_id IS NOT NULL AND group_id IS NULL)
\*     OR (chat_type = 'group' AND group_id IS NOT NULL AND contact_id IS NULL))
ChatCheckTypeOnly(r) == r.chat_type \in {"private", "group"}
ChatCheck(r) ==
    \/ r.chat_type = "private" /\ r.contact_id # NULL /\ r.group_id = NULL
    \/ r.chat_type = "group" /\ r.group_id # NULL /\ r.contact_id = NULL

\* whatsapp_chat_id VARCHAR(100) UNIQUE NOT NULL
ChatUnique(rows, r) ==
    \A q \in rows : q.chat_id # r.chat_id => q.whatsapp_chat_id # r.whatsapp_chat_id

\* UNIQUE(chat_id) of sync_status
StatusUnique(rows, chatId) == \A q \in rows : q.chat_id # chatId

\* total_messages_synced after a page of n messages was committed
PageTotal(count, n) == n
ProgressTotal(count, n) == count + n

StoreInit ==
    /\ chatRows = {} /\ syncStatus = {}
    /\ storeSeq = [chats |-> 0, sync_status |-> 0]
    /\ refused = {}

\* INSERT INTO chats (whatsapp_chat_id, chat_type, contact_id, group_id)
InsertChat ==
    /\ \E w \in WhatsAppChatIds, t \in ChatTypes, c \in Refs, g \in Refs :
         LET r == [chat_id |-> storeSeq.chats + 1, whatsapp_chat_id |-> w,
                   chat_type |-> t, contact_id |-> c, group_id |-> g,
                   is_archived |-> FALSE]
         IN  IF ~ChatCheck(r)
             THEN /\ refused' = refused \cup {"chats_check"}
                  /\ UNCHANGED <<chatRows, storeSeq>>
             ELSE IF ~ChatUnique(chatRows, r)
             THEN /\ refused' = refused \cup {"chats_unique"}
                  /\ UNCHANGED <<chatRows, storeSeq>>
             ELSE /\ chatRows' = chatRows \cup {r}
                  /\ storeSeq' = [storeSeq EXCEPT !.chats = @ + 1]
                  /\ UNCHANGED refused
    /\ UNCHANGED syncStatus
    /\ UNCHANGED <<scraperVars, syncVars, apiVars, augustVars, scrollVars, mediaVars>>

\* UPDATE chats SET chat_type = ?, contact_id = ?, group_id = ?,
\*                  is_archived = ? WHERE chat_id = ?
UpdateChat ==
    /\ \E q \in chatRows, t \in ChatTypes, c \in Refs, g \in Refs, a \in BOOLEAN :
         LET r == [q EXCEPT !.chat_type = t, !.contact_id = c, !.group_id = g,
                            !.is_archived = a]
         IN  IF ChatCheck(r)
             THEN /\ chatRows' = (chatRows \ {q}) \cup {r}
                  /\ UNCHANGED refused
             ELSE /\ refused' = refused \cup {"chats_check"}
                  /\ UNCHANGED chatRows
    /\ UNCHANGED <<syncStatus, storeSeq>>
    /\ UNCHANGED <<scraperVars, syncVars, apiVars, augustVars, scrollVars, mediaVars>>

\* INSERT INTO sync_status (chat_id): the cursor of a chat is created
InsertSyncStatus ==
    /\ \E q \in chatRows :
         IF StatusUnique(syncStatus, q.chat_id)
         THEN /\ syncStatus' = syncStatus \cup
                    {[sync_id |-> storeSeq.sync_status + 1, chat_id |-> q.chat_id,
                      last_synced_message_id |-> NULL,
                      total_messages_synced |-> 0]}
              /\ storeSeq' = [storeSeq EXCEPT !.sync_status = @ + 1]
              /\ UNCHANGED refused
         ELSE /\ refused' = refused \cup {"sync_status_unique"}
              /\ UNCHANGED <<syncStatus, storeSeq>>
    /\ UNCHANGED chatRows
    /\ UNCHANGED <<scraperVars, syncVars, apiVars, augustVars, scrollVars, mediaVars>>

\* the cursor is advanced after a page of n messages ending with message
\* `last` was committed
AdvanceSyncStatus ==
    /\ \E q \in syncStatus, n \in 1..MaxPage :
         LET last == q.total_messages_synced + n
         IN  /\ last <= MaxSynced
             /\ syncStatus' = (syncStatus \ {q}) \cup
                   {[q EXCEPT !.last_synced_message_id = last,
                              !.total_messages_synced =
                                  ProgressTotal(q.total_messages_synced, n)]}
    /\ UNCHANGED <<chatRows, storeSeq, refused>>
    /\ UNCHANGED <<scraperVars, syncVars, apiVars, augustVars, scrollVars, mediaVars>>

StoreAtRest ==
    /\ chatRows = {} /\ syncStatus = {}
    /\ storeSeq = [chats |-> 0, sync_status |-> 0]
    /\ refused = {}

-----------------------------------------------------------------------------
(* Media Manager: enqueue and processQueue over table media_download_queue *)
(* (queue_id, message_id, media_url, download_status, download_attempts).  *)
(* media_manager.py is not part of src/; the steps follow the              *)
(* specification: enqueue adds a pending task unless the message has one;  *)
(* processQueue downloads each pending task, hashes the bytes, writes the  *)
(* file unless the same bytes are stored already, and marks the task       *)
(* completed; a download error increments the retry counter and the task   *)
(* is marked failed once the counter exceeds the retry ceiling.            *)

MaxMediaMsgs == 2      \* messages with media
MaxEnqueues  == 2      \* enqueue calls per media URL
MaxMediaRetry == 1     \* retry ceiling of a MediaTask

MediaMessages == 1..MaxMediaMsgs
MediaUrls == {"u1", "u2"}

\* the bytes a URL serves and their content hash
BytesAt(url) == IF url = "u1" THEN "b1" ELSE "b2"
HashOf(bytes) == <<"sha256", bytes>>

\* a task exists for the message
NoTaskFor(q, messageId) == FALSE
HasTaskFor(q, messageId) == \E t \in q : t.message_id = messageId

\* the same bytes are stored already, under whatever message
NeverStored(fs, h) == FALSE
AlreadyStored(fs, h) == \E f \in fs : f.hash = h

\* the retry counter exceeds the ceiling
ReachedCeiling(count) == count >= MaxMediaRetry
ExceedsCeiling(count) == count > MaxMediaRetry

MediaInit ==
    /\ queue = {} /\ files = {} /\ mediaSeq = 0
    /\ enqCount = [u \in MediaUrls |-> 0]
    /\ skipped = {} /\ errLog = {}

\* enqueue(messageId, mediaUrl)
Enqueue ==
    /\ \E m \in MediaMessages, u \in MediaUrls :
         /\ enqCount[u] < MaxEnqueues
         /\ enqCount' = [enqCount EXCEPT ![u] = @ + 1]
         /\ IF HasTaskFor(queue, m)
            THEN /\ skipped' = skipped \cup {m}
                 /\ UNCHANGED <<queue, mediaSeq>>
            ELSE /\ queue' = queue \cup
                       {[queue_id |-> mediaSeq + 1, message_id |-> m,
                         media_url |-> u, download_status |-> "pending",
                         download_attempts |-> 0]}
                 /\ mediaSeq' = mediaSeq + 1
                 /\ UNCHANGED skipped
    /\ UNCHANGED <<files, errLog>>
    /\ UNCHANGED <<scraperVars, syncVars, apiVars, augustVars, scrollVars, storeVars>>

\* processQueue() takes a pending task
StartDownload ==
    /\ \E t \in queue :
         /\ t.download_status = "pending"
         /\ queue' = (queue \ {t}) \cup {[t EXCEPT !.download_status = "downloading"]}
    /\ UNCHANGED <<files, mediaSeq, enqCount, skipped, errLog>>
    /\ UNCHANGED <<scraperVars, syncVars, apiVars, augustVars, scrollVars, storeVars>>

\* the download succeeded: hash, write the file unless stored, mark completed
DownloadSucceeds ==
    /\ \E t \in queue :
         LET h == HashOf(BytesAt(t.media_url))
         IN  /\ t.download_status = "downloading"
             /\ queue' = (queue \ {t}) \cup {[t EXCEPT !.download_status = "completed"]}
             /\ files' = IF AlreadyStored(files, h) THEN files
                         ELSE files \cup {[hash |-> h, message_id |-> t.message_id]}
    /\ UNCHANGED <<mediaSeq, enqCount, skipped, errLog>>
    /\ UNCHANGED <<scraperVars, syncVars, apiVars, augustVars, scrollVars, storeVars>>

\* the download failed: count it, mark failed once the ceiling is exceeded,
\* else the task is tried again
DownloadFails ==
    /\ \E t \in queue :
         LET n == t.download_attempts + 1
         IN  /\ t.download_status = "downloading"
             /\ queue' = (queue \ {t}) \cup
                   {[t EXCEPT !.download_attempts = n,
                              !.download_status = IF ExceedsCeiling(n)
                                                  THEN "failed" ELSE @]}
             /\ errLog' = errLog \cup {<<t.queue_id, n>>}
    /\ UNCHANGED <<files, mediaSeq, enqCount, skipped>>
    /\ UNCHANGED <<scraperVars, syncVars, apiVars, augustVars, scrollVars, storeVars>>

MediaAtRest ==
    /\ queue = {} /\ files = {} /\ mediaSeq = 0
    /\ enqCount = [u \in MediaUrls |-> 0]
    /\ skipped = {} /\ errLog = {}

-----------------------------------------------------------------------------
(* FinalAugustSearch.scanAllChatsForAugust (src/final_august_search.js):   *)
(* one pass over the chat list by index, given up after                    *)
(* maxConsecutiveErrors chats in a row that could not be scanned.          *)

MaxTotalChats == 7     \* list items counted when the scan starts

maxConsecutiveErrors == 5

\* the locals of the function when the loop is entered; visited and
\* outcomes are history: the indexes the loop body ran for, and how each ended
FinalScanStart(n) ==
    [pc |-> "loop", totalChats |-> n, chatIndex |-> 0, consecutiveErrors |-> 0,
     totalChatsChecked |-> 0, foundAugustChats |-> <<>>,
     visited |-> <<>>, outcomes |-> <<>>]

FinalScanInit == \E n \in 0..MaxTotalChats : finalScan = FinalScanStart(n)

\* while (chatIndex < totalChats && consecutiveErrors < maxConsecutiveErrors)
IgnoresErrors(index, n, errors) == index < n
ScanContinues(index, n, errors) ==
    index < n /\ errors < maxConsecutiveErrors

FinalScanFrame ==
    /\ UNCHANGED coreVars
    /\ UNCHANGED <<chatScan, chatLoad, augustScan, augustExport, listScroll>>

\* the list item exists and is clicked; quickScanForAugust runs when the
\* conversation panel shows, and the chat is pushed when it returned messages
ChatAccessed ==
    /\ finalScan.pc = "loop"
    /\ ScanContinues(finalScan.chatIndex, finalScan.totalChats,
                     finalScan.consecutiveErrors)
    /\ \E result \in {"found", "none", "no_panel"} :
         finalScan' = [finalScan EXCEPT
            !.foundAugustChats = IF result = "found"
                                 THEN Append(@, finalScan.chatIndex) ELSE @,
            !.consecutiveErrors = 0,
            !.totalChatsChecked = finalScan.chatIndex + 1,
            !.chatIndex = @ + 1,
            !.visited = Append(@, finalScan.chatIndex),
            !.outcomes = Append(@, "ok")]
    /\ FinalScanFrame

\* chatElements[index] is missing: chatInfo is null
ChatInaccessible ==
    /\ finalScan.pc = "loop"
    /\ ScanContinues(finalScan.chatIndex, finalScan.totalChats,
                     finalScan.consecutiveErrors)
    /\ finalScan' = [finalScan EXCEPT
            !.consecutiveErrors = @ + 1,
            !.totalChatsChecked = finalScan.chatIndex + 1,
            !.chatIndex = @ + 1,
            !.visited = Append(@, finalScan.chatIndex),
            !.outcomes = Append(@, "failed")]
    /\ FinalScanFrame

\* a page.evaluate of the body throws: the catch counts the error and moves on
ChatThrows ==
    /\ finalScan.pc = "loop"
    /\ ScanContinues(finalScan.chatIndex, finalScan.totalChats,
                     finalScan.consecutiveErrors)
    /\ finalScan' = [finalScan EXCEPT
            !.consecutiveErrors = @ + 1,
            !.chatIndex = @ + 1,
            !.visited = Append(@, finalScan.chatIndex),
            !.outcomes = Append(@, "failed")]
    /\ FinalScanFrame

\* the while test fails
FinalScanEnds ==
    /\ finalScan.pc = "loop"
    /\ ~ScanContinues(finalScan.chatIndex, finalScan.totalChats,
                      finalScan.consecutiveErrors)
    /\ finalScan' = [finalScan EXCEPT !.pc = "done"]
    /\ FinalScanFrame

-----------------------------------------------------------------------------
(* The per-chat August scan: AugustMessageFinder.quickScanForAugust,       *)
(* QuickAugustSearch.scanChatForAugust, FinalAugustSearch.quickScanForAugust, *)
(* ConnectExistingBrowser.scanChatForAugust, ContinueAugustSearch          *)
(* .quickScanForAugust (src/README.md) and UseExistingSession              *)
(* .scanChatForAugust.  Each pass extracts the August messages in view,    *)
(* adds the new ones to augustMessages and scrolls up.                     *)

MaxSeen == 2       \* August messages one extraction pass returns

Scanners == {"AugustMessageFinder", "QuickAugustSearch", "FinalAugustSearch",
             "ConnectExistingBrowser", "ContinueAugustSearch",
             "UseExistingSession"}

\* const maxScrollAttempts of each class (the literal 8 of the while test in
\* ConnectExistingBrowser)
MaxScrollAttempts(scanner) ==
    CASE scanner = "AugustMessageFinder"    -> 20
      [] scanner = "QuickAugustSearch"      -> 10
      [] scanner = "FinalAugustSearch"      -> 8
      [] scanner = "ConnectExistingBrowser" -> 8
      [] scanner = "ContinueAugustSearch"   -> 15
      [] scanner = "UseExistingSession"     -> 15

\* the objects an extraction pass can push
AugustMessages ==
    [content : {"a", "b"}, timestamp : {"Aug 5, 2025"}, senderName : {"You", "A"}]
Views == UNION {[1..n -> AugustMessages] : n \in 0..MaxSeen}

\* the test of `some` / `find` over the messages collected so far
NeverSame(existing, msg, scanner) == FALSE
SameMessage(existing, msg, scanner) ==
    /\ existing.content = msg.content
    /\ existing.timestamp = msg.timestamp
    /\ scanner = "UseExistingSession" => existing.senderName = msg.senderName

\* currentMessages.forEach(msg => { if (!isDuplicate) augustMessages.push(msg) })
RECURSIVE AddUnique(_, _, _)
AddUnique(list, cur, scanner) ==
    IF cur = <<>> THEN list
    ELSE LET msg == Head(cur)
             isDuplicate == \E k \in DOMAIN list : SameMessage(list[k], msg, scanner)
         IN  AddUnique(IF isDuplicate THEN list ELSE Append(list, msg),
                       Tail(cur), scanner)

\* while (scrollAttempts < maxScrollAttempts)
NoLimit(scanner, count) == TRUE
WithinLimit(scanner, count) == count < MaxScrollAttempts(scanner)

\* UseExistingSession: if (!foundAugustInThisChat && scrollAttempts > 5) break
NeverGivesUp(scanner, found, count) == FALSE
GivesUp(scanner, found, count) ==
    scanner = "UseExistingSession" /\ ~found /\ count > 5

\* the locals when the loop is entered; passes and atTop are history: the
\* extraction passes made, and whether the last scroll step found the top
ChatScanStart(scanner) ==
    [pc |-> "loop", scanner |-> scanner, scrollAttempts |-> 0,
     augustMessages |-> <<>>, currentMessages |-> <<>>,
     foundAugustInThisChat |-> FALSE, passes |-> 0, atTop |-> FALSE]

ChatScanInit == \E scanner \in Scanners : chatScan = ChatScanStart(scanner)

ChatScanFrame ==
    /\ UNCHANGED coreVars
    /\ UNCHANGED <<finalScan, chatLoad, augustScan, augustExport, listScroll>>

\* one extraction pass: page.evaluate returns the August messages in view and
\* the new ones are added; UseExistingSession then tests whether to give up
ExtractPass ==
    /\ chatScan.pc = "loop"
    /\ WithinLimit(chatScan.scanner, chatScan.scrollAttempts)
    /\ \E cur \in Views :
         LET list  == AddUnique(chatScan.augustMessages, cur, chatScan.scanner)
             found == IF chatScan.scanner = "UseExistingSession"
                      THEN chatScan.foundAugustInThisChat
                             \/ Len(list) > Len(chatScan.augustMessages)
                      ELSE FALSE
         IN  chatScan' = [chatScan EXCEPT
                !.currentMessages = cur,
                !.augustMessages = list,
                !.foundAugustInThisChat = found,
                !.passes = @ + 1,
                !.pc = IF GivesUp(chatScan.scanner, found, chatScan.scrollAttempts)
                       THEN "done" ELSE "scroll"]
    /\ ChatScanFrame

\* the scroll step: it reports whether the panel moved; if (!scrolled) break;
\* else the timer and scrollAttempts++
ScrollUp ==
    /\ chatScan.pc = "scroll"
    /\ \E scrolled \in BOOLEAN :
         chatScan' = [chatScan EXCEPT
            !.currentMessages = <<>>,
            !.atTop = ~scrolled,
            !.scrollAttempts = IF scrolled THEN @ + 1 ELSE @,
            !.pc = IF scrolled THEN "loop" ELSE "done"]
    /\ ChatScanFrame

\* the while test fails
ScanLimitReached ==
    /\ chatScan.pc = "loop"
    /\ ~WithinLimit(chatScan.scanner, chatScan.scrollAttempts)
    /\ chatScan' = [chatScan EXCEPT !.pc = "done"]
    /\ ChatScanFrame

\* a page.evaluate throws: the catch returns [] (ConnectExistingBrowser has
\* no catch and the call rejects)
ScanThrows ==
    /\ chatScan.pc \in {"loop", "scroll"}
    /\ chatScan.pc = "loop" => WithinLimit(chatScan.scanner, chatScan.scrollAttempts)
    /\ chatScan' = [chatScan EXCEPT !.pc = "threw", !.currentMessages = <<>>]
    /\ ChatScanFrame

-----------------------------------------------------------------------------
(* UseExistingSession.getAllChats (src/use_existing_session.js): the loop  *)
(* that scrolls the chat list down and polls the number of list items      *)
(* until the count has stopped growing.                                    *)

MaxListItems == 3      \* list items the chat list can show

maxAttempts == 30

\* the locals when the loop is entered; polls is history: for each poll,
\* whether it showed a count above previousCount; exit is how the loop ended
ChatLoadStart ==
    [pc |-> "loop", attempts |-> 0, previousCount |-> 0,
     polls |-> <<>>, exit |-> "none"]

\* if (currentCount > previousCount) attempts = 0; else attempts++
CountEveryPoll(grew, count) == count + 1
AttemptsAfter(grew, count) == IF grew THEN 0 ELSE count + 1

ChatLoadFrame ==
    /\ UNCHANGED coreVars
    /\ UNCHANGED <<finalScan, chatScan, augustScan, augustExport, listScroll>>

\* one pass of the loop: scroll down, wait, count the list items, compare,
\* `if (attempts >= 5) break`, then the while test
PollChatCount ==
    /\ chatLoad.pc = "loop"
    /\ \E currentCount \in 0..MaxListItems :
         LET grew == currentCount > chatLoad.previousCount
             n    == AttemptsAfter(grew, chatLoad.attempts)
         IN  chatLoad' = [chatLoad EXCEPT
                !.previousCount = IF grew THEN currentCount ELSE @,
                !.attempts = n,
                !.polls = Append(@, grew),
                !.exit = IF n >= 5 THEN "break"
                         ELSE IF n < maxAttempts THEN "none" ELSE "while",
                !.pc = IF n >= 5 \/ ~(n < maxAttempts) THEN "done" ELSE "loop"]
    /\ ChatLoadFrame

\* a page.evaluate of the loop throws: the catch returns []
PollThrows ==
    /\ chatLoad.pc = "loop"
    /\ chatLoad' = [chatLoad EXCEPT !.pc = "threw"]
    /\ ChatLoadFrame

-----------------------------------------------------------------------------
(* UseExistingSession.scanForAugustMessages (src/use_existing_session.js): *)
(* the chats getAllChats returned are scanned one by one, private chats    *)
(* first, and the chats with August messages are collected.                *)

MaxDiscovered == 3     \* chats getAllChats returns

\* the lists getAllChats can return: name, position in the chat list, isGroup
DiscoveredChats ==
    UNION {{[k \in 1..n |-> [name |-> nm[k], index |-> k - 1, isGroup |-> g[k]]] :
              nm \in [1..n -> Names], g \in [1..n -> BOOLEAN]} :
           n \in 0..MaxDiscovered}

IsGroupChat(chat) == chat.isGroup
IsPrivateChat(chat) == ~chat.isGroup

\* const orderedChats = [...privateChats, ...groupChats]
AsListed(list) == list
PrivateFirst(list) ==
    SelectSeq(list, IsPrivateChat) \o SelectSeq(list, IsGroupChat)

\* what scanChatForAugust returns: no message, or the messages it found
OneAugustMessage ==
    [content |-> "a", timestamp |-> "Aug 5, 2025", senderName |-> "You"]
ScanResults == {<<>>, <<OneAugustMessage>>}

\* the state when the function is called; scanned is history: the chats
\* scanChatForAugust was called for, in call order
AugustScanStart(list) ==
    [pc |-> "start", chats |-> list, orderedChats |-> <<>>, i |-> 0,
     totalChatsChecked |-> 0, foundAugustChats |-> <<>>, scanned |-> <<>>]

AugustScanInit == \E list \in DiscoveredChats : augustScan = AugustScanStart(list)

AugustScanFrame ==
    /\ UNCHANGED coreVars
    /\ UNCHANGED <<finalScan, chatScan, chatLoad, augustExport, listScroll>>

\* getAllChats has returned: return when there is no chat, else order them
OrderChats ==
    /\ augustScan.pc = "start"
    /\ augustScan' = [augustScan EXCEPT
          !.orderedChats = IF augustScan.chats = <<>> THEN <<>>
                           ELSE PrivateFirst(augustScan.chats),
          !.pc = IF augustScan.chats = <<>> THEN "done" ELSE "loop"]
    /\ AugustScanFrame

\* one pass of the for loop: scan orderedChats[i], push when it returned
\* messages, wait, i++
ScanOrderedChat ==
    /\ augustScan.pc = "loop"
    /\ augustScan.i < Len(augustScan.orderedChats)
    /\ \E augustMessages \in ScanResults :
         LET chat == augustScan.orderedChats[augustScan.i + 1]
         IN  augustScan' = [augustScan EXCEPT
                !.totalChatsChecked = augustScan.i,
                !.foundAugustChats =
                    IF Len(augustMessages) > 0
                    THEN Append(@, [chat |-> chat, messages |-> augustMessages])
                    ELSE @,
                !.scanned = Append(@, chat),
                !.i = @ + 1]
    /\ AugustScanFrame

\* i < orderedChats.length fails
AugustScanEnds ==
    /\ augustScan.pc = "loop"
    /\ ~(augustScan.i < Len(augustScan.orderedChats))
    /\ augustScan' = [augustScan EXCEPT !.pc = "done"]
    /\ AugustScanFrame

-----------------------------------------------------------------------------
(* The export of the chats found by an August search: exportResults of     *)
(* QuickAugustSearch, ConnectExistingBrowser and UseExistingSession and    *)
(* AugustMessageFinder.exportAugustMessages.  The field names are those of *)
(* ConnectExistingBrowser (totalChats, totalMessages); the other classes   *)
(* call them totalChatsWithAugustMessages or chatsWithAugustMessages, and  *)
(* totalAugustMessages.                                                    *)

MaxFound == 3      \* entries of foundAugustChats

\* the messages of an entry: one or two August messages
FoundMessages(n) ==
    [k \in 1..n |-> [content |-> IF k = 1 THEN "a" ELSE "b",
                     timestamp |-> "Aug 5, 2025", senderName |-> "You"]]

\* the lists foundAugustChats can be: chats at different positions of the
\* chat list, whose display names may be equal, each with its messages
FoundLists ==
    UNION {{[k \in 1..n |-> [chat |-> [name |-> nm[k], index |-> k - 1],
                             messages |-> FoundMessages(len[k])]] :
              nm \in [1..n -> Names], len \in [1..n -> 1..MaxSeen]} :
           n \in 0..MaxFound}

\* foundAugustChats.reduce((sum, chat) => sum + chat.messages.length, 0)
RECURSIVE SumOfMessages(_)
SumOfMessages(found) ==
    IF found = <<>> THEN 0
    ELSE Len(Head(found).messages) + SumOfMessages(Tail(found))

\* foundAugustChats.forEach(({chat, messages}) => { chats[chat.name] = ... }):
\* an assignment to a key that exists replaces its value
ChatsByName(found) ==
    [n \in {found[k].chat.name : k \in DOMAIN found} |->
        LET last == CHOOSE k \in DOMAIN found :
                       /\ found[k].chat.name = n
                       /\ \A j \in DOMAIN found : found[j].chat.name = n => j <= k
        IN  [chatName |-> n,
             messageCount |-> Len(found[last].messages),
             messages |-> found[last].messages]]

ExportDataFor(found) ==
    [searchPeriod |-> "August 2025",
     totalChats |-> Len(found),
     totalMessages |-> SumOfMessages(found),
     chats |-> ChatsByName(found)]

NoExportData ==
    [searchPeriod |-> "", totalChats |-> 0, totalMessages |-> 0, chats |-> <<>>]

AugustExportStart(found) ==
    [pc |-> "start", foundAugustChats |-> found, exportData |-> NoExportData]

AugustExportInit == \E found \in FoundLists : augustExport = AugustExportStart(found)

AugustExportFrame ==
    /\ UNCHANGED coreVars
    /\ UNCHANGED <<finalScan, chatScan, chatLoad, augustScan, listScroll>>

\* if (this.foundAugustChats.length === 0) return; else build exportData
BuildExportData ==
    /\ augustExport.pc = "start"
    /\ augustExport' =
          IF augustExport.foundAugustChats = <<>>
          THEN [augustExport EXCEPT !.pc = "returned"]
          ELSE [augustExport EXCEPT
                   !.pc = "built",
                   !.exportData = ExportDataFor(augustExport.foundAugustChats)]
    /\ AugustExportFrame

\* fs.writeFile(filename, JSON.stringify(exportData)); an error is logged
WriteExportFile ==
    /\ augustExport.pc = "built"
    /\ \E err \in BOOLEAN :
         augustExport' = [augustExport EXCEPT
                             !.pc = IF err THEN "failed" ELSE "written"]
    /\ AugustExportFrame

-----------------------------------------------------------------------------
(* WhatsAppWebScraper.scrollChatList (src/whatsapp_web_scraper.js) and,    *)
(* for comparison, ContinueAugustSearch.scrollChatList (src/README.md):    *)
(* scroll the chat list to its end until its scrollHeight stops changing.  *)
(* The chat list exists when the loop starts (waitForSelector) and rows    *)
(* are only added to it, up to MaxHeight.                                  *)

MaxHeight == 12    \* scrollHeight of the fully loaded chat list

ListScrollers == {"WhatsAppWebScraper", "ContinueAugustSearch"}

\* while (previousHeight !== currentHeight), with `&& attempts < 10` in
\* ContinueAugustSearch
AlwaysScrolls(scroller, previous, current, count) == TRUE
HeightChanged(scroller, previous, current, count) ==
    /\ previous # current
    /\ scroller = "ContinueAugustSearch" => count < 10

\* the locals after the first reading; readings is history: the heights read
ListScrollStart(scroller, height) ==
    [pc |-> "loop", scroller |-> scroller, previousHeight |-> 0,
     currentHeight |-> height, attempts |-> 0, readings |-> <<height>>]

ListScrollInit ==
    \E scroller \in ListScrollers, height \in 1..MaxHeight :
        listScroll = ListScrollStart(scroller, height)

ListScrollFrame ==
    /\ UNCHANGED coreVars
    /\ UNCHANGED <<finalScan, chatScan, chatLoad, augustScan, augustExport>>

\* one pass: previousHeight = currentHeight; scroll to the end; wait; read
ScrollListDown ==
    /\ listScroll.pc = "loop"
    /\ HeightChanged(listScroll.scroller, listScroll.previousHeight,
                     listScroll.currentHeight, listScroll.attempts)
    /\ \E height \in listScroll.currentHeight..MaxHeight :
         listScroll' = [listScroll EXCEPT
            !.previousHeight = listScroll.currentHeight,
            !.currentHeight = height,
            !.attempts = @ + 1,
            !.readings = Append(@, height)]
    /\ ListScrollFrame

\* the while test fails
ListScrollEnds ==
    /\ listScroll.pc = "loop"
    /\ ~HeightChanged(listScroll.scroller, listScroll.previousHeight,
                      listScroll.currentHeight, listScroll.attempts)
    /\ listScroll' = [listScroll EXCEPT !.pc = "done"]
    /\ ListScrollFrame

\* a page.evaluate throws: scrollChatList rejects
ListScrollThrows ==
    /\ listScroll.pc = "loop"
    /\ HeightChanged(listScroll.scroller, listScroll.previousHeight,
                     listScroll.currentHeight, listScroll.attempts)
    /\ listScroll' = [listScroll EXCEPT !.pc = "threw"]
    /\ ListScrollFrame

-----------------------------------------------------------------------------
\* the components a specification leaves at rest
ScraperAtRest ==
    /\ contacts = {} /\ chats = {} /\ messages = {}
    /\ seq = [contacts |-> 0, chats |-> 0, messages |-> 0]
    /\ remote = [n \in Names |-> <<>>]
    /\ stmtDb = TRUE
    /\ now = 1 /\ runs = 1 /\ faults = 0
    /\ pc = "start"
    /\ isLoggedIn = FALSE /\ dbOpen = FALSE /\ browserOpen = FALSE
    /\ chatList = <<>> /\ i = 0 /\ curMsgs = <<>>
    /\ save = IdleSave
    /\ exported = NoExport

SyncAtRest ==
    /\ histLen = 0 /\ stored = {} /\ cursor = 0 /\ synced = 0
    /\ syncPc = "idle" /\ page = <<>> /\ inFlight = 0
    /\ pageSize = 1 /\ lookback = 1
    /\ paged = {} /\ interrupts = 0 /\ added = 0

ApiAtRest ==
    /\ ceiling = 0 /\ attempts = 0 /\ responses = <<>>
    /\ callResult = "pending" /\ backoff = 0

FinalScanAtRest    == finalScan = FinalScanStart(0)
ChatScanAtRest     == chatScan = ChatScanStart("FinalAugustSearch")
ChatLoadAtRest     == chatLoad = ChatLoadStart
AugustScanAtRest   == augustScan = AugustScanStart(<<>>)
AugustExportAtRest == augustExport = AugustExportStart(<<>>)
ListScrollAtRest   == listScroll = ListScrollStart("WhatsAppWebScraper", 1)
AugustAtRest ==
    /\ FinalScanAtRest /\ ChatScanAtRest /\ ChatLoadAtRest
    /\ AugustScanAtRest /\ AugustExportAtRest /\ ListScrollAtRest

\* everything but the August search scripts
CoreAtRest ==
    /\ ScraperAtRest /\ SyncAtRest /\ ApiAtRest
    /\ ScrollAtRest /\ StoreAtRest /\ MediaAtRest
\* WhatsAppWebScraper
AuxAtRest == ScrollAtRest /\ StoreAtRest /\ MediaAtRest /\ AugustAtRest

Init == ScraperInit /\ SyncAtRest /\ ApiAtRest /\ AuxAtRest
Next == RunStep \/ RunAgain \/ ExportToJSON
Spec == Init /\ [][Next]_vars

\* Sync Manager
InitSync == ScraperAtRest /\ SyncInit /\ ApiAtRest /\ AuxAtRest
NextSync ==
    \/ StartSync
    \/ FetchPage
    \/ CommitPage
    \/ AdvanceCursor
    \/ Interrupt
    \/ ProviderAdds
    \/ StartIncremental
    \/ FetchWindow
    \/ CommitWindow
    \/ AdvanceIncremental
SpecSync == InitSync /\ [][NextSync]_vars

\* API client
InitApi == ScraperAtRest /\ SyncAtRest /\ ApiInit /\ AuxAtRest
NextApi == SendRequest \/ BackoffElapsed
SpecApi == InitApi /\ [][NextApi]_vars

\* scrollMessageHistory: every await of the loop returns or throws
InitScroll == /\ ScraperAtRest /\ SyncAtRest /\ ApiAtRest
              /\ ScrollInit /\ StoreAtRest /\ MediaAtRest /\ AugustAtRest
NextScroll == LoopTest \/ ScrollToTop \/ CountMessages
SpecScroll == InitScroll /\ [][NextScroll]_vars /\ WF_vars(NextScroll)

\* Storage
InitStore == /\ ScraperAtRest /\ SyncAtRest /\ ApiAtRest
             /\ ScrollAtRest /\ StoreInit /\ MediaAtRest /\ AugustAtRest
NextStore == InsertChat \/ UpdateChat \/ InsertSyncStatus \/ AdvanceSyncStatus
SpecStore == InitStore /\ [][NextStore]_vars

\* Media Manager
InitMedia == /\ ScraperAtRest /\ SyncAtRest /\ ApiAtRest
             /\ ScrollAtRest /\ StoreAtRest /\ MediaInit /\ AugustAtRest
NextMedia == Enqueue \/ StartDownload \/ DownloadSucceeds \/ DownloadFails
SpecMedia == InitMedia /\ [][NextMedia]_vars

\* FinalAugustSearch.scanAllChatsForAugust
InitFinalScan == /\ CoreAtRest /\ FinalScanInit /\ ChatScanAtRest /\ ChatLoadAtRest
                 /\ AugustScanAtRest /\ AugustExportAtRest /\ ListScrollAtRest
NextFinalScan == ChatAccessed \/ ChatInaccessible \/ ChatThrows \/ FinalScanEnds
SpecFinalScan == InitFinalScan /\ [][NextFinalScan]_vars /\ WF_vars(NextFinalScan)

\* the per-chat August scan
InitChatScan == /\ CoreAtRest /\ FinalScanAtRest /\ ChatScanInit /\ ChatLoadAtRest
                /\ AugustScanAtRest /\ AugustExportAtRest /\ ListScrollAtRest
NextChatScan == ExtractPass \/ ScrollUp \/ ScanLimitReached \/ ScanThrows
SpecChatScan == InitChatScan /\ [][NextChatScan]_vars /\ WF_vars(NextChatScan)

\* UseExistingSession.getAllChats
InitChatLoad == /\ CoreAtRest /\ FinalScanAtRest /\ ChatScanAtRest
                /\ chatLoad = ChatLoadStart
                /\ AugustScanAtRest /\ AugustExportAtRest /\ ListScrollAtRest
NextChatLoad == PollChatCount \/ PollThrows
SpecChatLoad == InitChatLoad /\ [][NextChatLoad]_vars /\ WF_vars(NextChatLoad)

\* UseExistingSession.scanForAugustMessages
InitAugustScan == /\ CoreAtRest /\ FinalScanAtRest /\ ChatScanAtRest /\ ChatLoadAtRest
                  /\ AugustScanInit /\ AugustExportAtRest /\ ListScrollAtRest
NextAugustScan == OrderChats \/ ScanOrderedChat \/ AugustScanEnds
SpecAugustScan == InitAugustScan /\ [][NextAugustScan]_vars /\ WF_vars(NextAugustScan)

\* the export of the found chats
InitAugustExport == /\ CoreAtRest /\ FinalScanAtRest /\ ChatScanAtRest /\ ChatLoadAtRest
                    /\ AugustScanAtRest /\ AugustExportInit /\ ListScrollAtRest
NextAugustExport == BuildExportData \/ WriteExportFile
SpecAugustExport == InitAugustExport /\ [][NextAugustExport]_vars

\* scrollChatList
InitListScroll == /\ CoreAtRest /\ FinalScanAtRest /\ ChatScanAtRest /\ ChatLoadAtRest
                  /\ AugustScanAtRest /\ AugustExportAtRest /\ ListScrollInit
NextListScroll == ScrollListDown \/ ListScrollEnds \/ ListScrollThrows
SpecListScroll == InitListScroll /\ [][NextListScroll]_vars /\ WF_vars(NextListScroll)

-----------------------------------------------------------------------------
(* Properties *)

\* the message rows written for the chat called `name` (the chat name is the
\* first part of every whatsapp_message_id the scraper builds)
RowsOf(name) == {m \in messages : m.whatsapp_message_id[1] = name}

(* C1: syncing a chat again with the same remote messages stores no message
   twice: once the statements of a save have run, the rows of a chat do not
   outnumber the messages of its conversation panel. *)
C1_SyncIdempotent ==
    Drained =>
        \A name \in Names :
            Cardinality(RowsOf(name)) <= Len(ExtractMessages(remote[name], name))

(* C2: inside the chat loop run() always has a next step, whatever happened
   to the chats before: no chat leaves the loop unable to reach the
   following chats and the end of the list. *)
C2_PartialFailureIsolation ==
    pc \in {"extract_history", "save_call", "await_save", "delay"}
        => ENABLED RunStep

(* C3: when a sync has ended, however often it was interrupted and resumed,
   the stored rows, the cursor and the progress counter are those of the
   sync that nothing interrupts. *)
C3_ResumeCorrect ==
    syncPc = "done" =>
        [stored |-> stored, cursor |-> cursor, synced |-> synced]
            = Uninterrupted(histLen - added, pageSize)

\* a sync of at least two pages that was interrupted after its first page
\* and ran to its end
C3_Witness ==
    /\ syncPc = "done"
    /\ interrupts > 0
    /\ histLen - added > pageSize

(* C4: in every state, interrupted ones included, the message the cursor
   names and the messages of every page the cursor was advanced over are
   stored. *)
C4_CursorAfterCommit ==
    cursor # 0 => (cursor \in stored /\ paged \subseteq stored)

\* a sync interrupted after it advanced the cursor
C4_Witness ==
    /\ syncPc = "idle"
    /\ interrupts > 0
    /\ cursor # 0

(* C5: no two message rows of the same chat carry the same
   whatsapp_message_id. *)
C5_UniqueProviderId ==
    \A m1, m2 \in messages :
        (m1.chat_id = m2.chat_id
           /\ m1.whatsapp_message_id = m2.whatsapp_message_id) => m1 = m2

\* two rows of one chat whose identifiers were built in the same millisecond
C5_Witness ==
    \E m1, m2 \in messages :
        /\ m1 # m2
        /\ m1.chat_id = m2.chat_id
        /\ m1.whatsapp_message_id[3] = m2.whatsapp_message_id[3]

(* C6: once the statements of a save have run, every message row's chat_id
   names a chat row and every chat row's contact_id names a contact row. *)
C6_ReferentialIntegrity ==
    Drained =>
        /\ \A m \in messages : \E c \in chats : c.id = m.chat_id
        /\ \A c \in chats : \E k \in contacts : k.id = c.contact_id

(* C7: a call makes at most R+1 attempts; it succeeds exactly when one of
   them got a 200; it gives up only on a fatal response or when the R+1
   attempts are used up; with R = 3 and 503, 503, 503, 200 it succeeds with
   4 attempts. *)
C7_RetryCeiling ==
    /\ attempts <= ceiling + 1
    /\ attempts = Len(responses)
    /\ (callResult = "success") <=> (200 \in Range(responses))
    /\ callResult = "failure" =>
          \/ attempts = ceiling + 1
          \/ ~Transient(responses[Len(responses)])
    /\ (ceiling = 3 /\ responses = <<503, 503, 503, 200>>) =>
          (callResult = "success" /\ attempts = 4)

\* the example: three 503 and then a 200 under a ceiling of 3
C7_Witness ==
    /\ ceiling = 3
    /\ responses = <<503, 503, 503, 200>>
    /\ callResult = "success"

\* the remote messages inside the lookback window that are newer than every
\* stored message of the window
NewerThanKnown ==
    LET win == {id \in 1..histLen : id > histLen - lookback}
    IN  {id \in win : \A k \in win \cap stored : id > k}

(* C8: an incremental run stores exactly the messages of its lookback window
   that are newer than the newest known one, newest first and at most N of
   them; in the example (m1..m3 stored, cursor m3, m4 added, lookback 10) it
   stores only m4 and the chat ends with 4 rows. *)
C8_BoundedLookback ==
    /\ [][(syncPc = "inc_commit" /\ syncPc' = "inc_advance") =>
            /\ stored' = stored \cup NewerThanKnown
            /\ Range(page') = NewerThanKnown
            /\ Len(page') <= lookback
            /\ \A a, b \in DOMAIN page' : a < b => page'[a] > page'[b]]_vars
    /\ []((/\ lookback = ExampleLookback /\ histLen = 4 /\ added = 1
           /\ syncPc = "inc_idle" /\ 4 \in paged)
             => (stored = 1..4 /\ cursor = 4 /\ synced = 4))

\* the example scenario after its incremental run
C8_Witness ==
    /\ lookback = ExampleLookback /\ histLen = 4 /\ added = 1
    /\ syncPc = "inc_idle"
    /\ stored = 1..4 /\ cursor = 4 /\ page = <<4>>

(* C9: a step that saves a message whose whatsapp_message_id is already
   stored leaves every stored row with that identifier as it was: same row
   id, chat, sender, content, type and timestamp. *)
C9_UpsertFrame ==
    [][\A r \in messages :
          (\E n \in messages' \ messages :
               n.whatsapp_message_id = r.whatsapp_message_id)
             => r \in messages']_vars

\* a message was saved under an identifier that was already stored
C9_Witness ==
    \E m1, m2 \in messages :
        /\ m1.id # m2.id
        /\ m1.whatsapp_message_id = m2.whatsapp_message_id

(* C10: for a conversation panel that lists its messages oldest first, the
   list extractChatHistory returns is oldest first. *)
C10_ChronologicalOrder ==
    pc = "save_call" =>
        curMsgs = PushMessages(remote[chatList[i].name], chatList[i].name)

(* C11: scrollMessageHistory ends, and when its loop is left the last count
   found no new message or the count has reached maxMessages. *)
C11_ScrollTerminates ==
    /\ <>(scrollPc \in {"done", "threw"})
    /\ [](scrollPc = "done" =>
            \/ polled /\ lastGain = 0
            \/ messageCount >= maxMessages)

\* the loop was left at the start of the history, below the limit, after
\* more than one count
C11_Witness ==
    /\ scrollPc = "done"
    /\ polled /\ lastGain = 0
    /\ previousCount > 0
    /\ messageCount = total /\ messageCount < maxMessages

(* C12: a save is given up (its promise rejected) only after a statement
   failed twice, the attempt and its one retry. *)
C12_StorageErrorRetriedOnce ==
    save.promise = "rejected" => save.errors >= 2

(* C13: every chat row references a contact or a group, not both and not
   neither, and the reference agrees with its chat_type. *)
C13_ContactXorGroup ==
    \A r \in chatRows :
        /\ (r.contact_id # NULL) # (r.group_id # NULL)
        /\ r.chat_type = "private" => r.contact_id # NULL
        /\ r.chat_type = "group" => r.group_id # NULL
        /\ r.chat_type \in {"private", "group"}

\* a private and a group chat are stored and a statement was refused by the
\* CHECK constraint
C13_Witness ==
    /\ \E r \in chatRows : r.chat_type = "private"
    /\ \E r \in chatRows : r.chat_type = "group"
    /\ "chats_check" \in refused

\* position of a download_status in the life of a task
StatusRank(st) ==
    CASE st = "pending" -> 1 [] st = "downloading" -> 2 [] OTHER -> 3

(* C14: no step moves a task's status backwards and a completed task never
   changes; the retry counter of a task is the number of its download
   errors; a failed task's counter exceeds the retry ceiling; no counter
   goes beyond the first value that exceeds it. *)
C14_MediaTaskForward ==
    /\ [][\A t \in queue : \E n \in queue' :
             /\ n.queue_id = t.queue_id
             /\ StatusRank(n.download_status) >= StatusRank(t.download_status)
             /\ t.download_status = "completed" => n = t]_vars
    /\ [](\A t \in queue :
             /\ t.download_attempts =
                    Cardinality({e \in errLog : e[1] = t.queue_id})
             /\ t.download_status = "failed"
                    => t.download_attempts > MaxMediaRetry
             /\ t.download_attempts <= MaxMediaRetry + 1)

\* one task failed after using up its retries, another completed after an error
C14_Witness ==
    /\ \E t \in queue : /\ t.download_status = "failed"
                        /\ t.download_attempts = MaxMediaRetry + 1
    /\ \E t \in queue : /\ t.download_status = "completed"
                        /\ t.download_attempts > 0

(* C15: the queue holds at most one task per message, and a task that a
   step adds is pending with zero attempts. *)
C15_OneTaskPerMessage ==
    /\ [](\A t1, t2 \in queue : t1.message_id = t2.message_id => t1 = t2)
    /\ [][\A n \in queue' :
             (\A t \in queue : t.queue_id # n.queue_id)
                => (n.download_status = "pending" /\ n.download_attempts = 0)]_vars

\* an enqueue for a message that already had a task was ignored, with tasks
\* of both messages in the queue
C15_Witness ==
    /\ skipped # {}
    /\ Cardinality(queue) = MaxMediaMsgs

\* the completed tasks of a media URL
CompletedFor(u) ==
    {t \in queue : t.media_url = u /\ t.download_status = "completed"}

\* the URL was enqueued twice and processQueue has downloaded every task
EnqueuedTwiceAndProcessed(u) ==
    /\ enqCount[u] = 2
    /\ \A t \in queue : t.download_status = "completed"
    /\ CompletedFor(u) # {}

(* C16 as stated: after a media URL was enqueued twice and the queue was
   processed, every download succeeding, there is exactly one completed
   download of the URL and exactly one stored file of it. *)
C16_OneDownloadPerUrl ==
    \A u \in MediaUrls :
        EnqueuedTwiceAndProcessed(u) =>
            /\ Cardinality(CompletedFor(u)) = 1
            /\ Cardinality({f \in files : f.hash = HashOf(BytesAt(u))}) = 1

(* C16, amended: after a media URL was enqueued twice and the queue was
   processed, every download succeeding, exactly one file of its bytes is
   stored, and there is one completed download of it for each message it
   was queued for: one when both enqueues name the same message, two when
   they name two messages. *)
C16_OneFilePerContent ==
    \A u \in MediaUrls :
        EnqueuedTwiceAndProcessed(u) =>
            /\ Cardinality({f \in files : f.hash = HashOf(BytesAt(u))}) = 1
            /\ \A t1, t2 \in CompletedFor(u) :
                  t1.message_id = t2.message_id => t1 = t2
            /\ (\E m \in skipped : \A t \in CompletedFor(u) : t.message_id = m)
                  => Cardinality(CompletedFor(u)) = 1

\* the URL was enqueued for two messages, both downloads completed, one file
C16_Witness ==
    /\ EnqueuedTwiceAndProcessed("u1")
    /\ Cardinality(CompletedFor("u1")) = 2
    /\ Cardinality(files) = 1

(* C17: no two sync_status rows name the same chat, and no step lowers the
   total_messages_synced of a chat. *)
C17_OneCursorMonotone ==
    /\ [](\A r1, r2 \in syncStatus : r1.chat_id = r2.chat_id => r1 = r2)
    /\ [][\A r1 \in syncStatus : \A r2 \in syncStatus' :
             r1.chat_id = r2.chat_id =>
                 r2.total_messages_synced >= r1.total_messages_synced]_vars

\* a cursor advanced twice, and a second cursor for its chat refused
C17_Witness ==
    /\ \E r \in syncStatus :
          r.total_messages_synced >= 2 /\ r.last_synced_message_id # NULL
    /\ "sync_status_unique" \in refused

\* the list exported under a chat name (empty when the name is not exported)
ExportedList(n) ==
    IF n \in DOMAIN exported.data.chats
    THEN exported.data.chats[n].messages ELSE <<>>

\* the sum of the lengths of the lists exported under the names of S
RECURSIVE ExportedTotal(_)
ExportedTotal(S) ==
    IF S = {} THEN 0
    ELSE LET n == CHOOSE x \in S : TRUE
         IN  Len(ExportedList(n)) + ExportedTotal(S \ {n})

(* C18: the document exportToJSON writes carries the user identifier; under
   every chat name it lists each stored message row of that chat exactly
   once, in ascending timestamp order; totalMessages is the sum of the
   lengths of the lists. *)
C18_ExportComplete ==
    exported.result = "resolved" =>
        /\ exported.data.userPhone = userPhone
        /\ DOMAIN exported.data.chats \subseteq Names
        /\ \A n \in Names :
             LET l == ExportedList(n)
             IN  /\ Len(l) = Cardinality(RowsOf(n))
                 /\ \A m \in RowsOf(n) : \E k \in DOMAIN l :
                       /\ l[k].content = m.content
                       /\ l[k].timestamp = m.timestamp
                       /\ l[k].sender = m.sender_name
                 /\ \A a, b \in DOMAIN l :
                       a < b => TimeRank(l[a].timestamp) <= TimeRank(l[b].timestamp)
        /\ exported.data.totalMessages = ExportedTotal(Names)

(* C19: once the insert callback of every message of a save has fired, the
   promise of the save is settled. *)
C19_PromiseSettles ==
    (save.stage = "msgs" /\ save.fired = Len(save.msgs))
        => save.promise \in {"resolved", "rejected"}

(* C20: the promise of a save is resolved only when every insert callback
   has fired; after the last callback the statement has been finalized
   exactly once and the count logged as saved is the number of inserts that
   succeeded. *)
C20_ResolveAfterAllCallbacks ==
    /\ save.promise = "resolved" => save.fired = Len(save.msgs)
    /\ (save.stage = "msgs" /\ save.fired = Len(save.msgs)
          /\ save.promise = "resolved")
         => (save.finalizeCalls = 1 /\ save.logged = save.savedCount)

(* C21: every execution of run() ends with close(): a run that has not
   closed yet always has a next step to take (here for runs whose statement
   callbacks can reach the database handle, so that none ends by an uncaught
   exception), and once close() has run the database and the browser are
   closed and no step of the run follows. *)
C21_RunEndsWithClose ==
    /\ (stmtDb /\ pc # "closed") => ENABLED RunStep
    /\ pc = "closed" => (~dbOpen /\ ~browserOpen /\ ~ENABLED RunStep)

(* C22: chats are extracted and saved only in a logged-in session.
   isLoggedIn becomes true only in the step of connectToWhatsApp that saw
   the chat list and returns true, and is never reset on the instance;
   connectToWhatsApp returning false leaves it false; extractAllChats returns
   the empty list while isLoggedIn is false; a run that is not logged in
   holds no chat list, has no save under way and changes no table. *)
C22_LoggedInOnly ==
    /\ [](/\ pc \in {"extract_chats", "extract_history", "save_call",
                     "await_save", "delay", "find_august"} => isLoggedIn
          /\ ~isLoggedIn => (chatList = <<>> /\ curMsgs = <<>> /\ save = IdleSave)
          /\ \A found \in ChatLists : ExtractedChats(FALSE, found) = <<>>)
    /\ [][/\ (isLoggedIn' /\ ~isLoggedIn)
                => (pc = "connect" /\ pc' = "extract_chats")
          /\ (isLoggedIn /\ ~isLoggedIn') => pc' = "start"
          /\ (pc = "connect" /\ pc' = "finally") => ~isLoggedIn'
          /\ (pc = "connect" /\ pc' = "extract_chats") => isLoggedIn'
          /\ (~isLoggedIn /\ ~isLoggedIn') => UNCHANGED dbVars]_vars

\* connectToWhatsApp has returned false and run() is on its way to close()
C22_Witness == pc = "finally" /\ browserOpen /\ ~isLoggedIn /\ faults > 0

\* the number of failed chats at the end of a list of outcomes
RECURSIVE TrailingFailures(_)
TrailingFailures(o) ==
    IF o = <<>> \/ o[Len(o)] = "ok" THEN 0
    ELSE 1 + TrailingFailures(SubSeq(o, 1, Len(o) - 1))

(* C23: scanAllChatsForAugust stops as soon as 5 consecutive chats have
   failed; consecutiveErrors is the number of failed chats since the last
   chat that was accessed (an accessed chat resets it to 0); the chats
   visited are the indexes 0, 1, 2, ... below totalChats, each once and in
   increasing order; and the scan ends. *)
C23_ScanStopsAfterFiveFailures ==
    /\ [](/\ finalScan.consecutiveErrors = TrailingFailures(finalScan.outcomes)
          /\ finalScan.consecutiveErrors <= maxConsecutiveErrors
          /\ \A k \in DOMAIN finalScan.visited :
                finalScan.visited[k] = k - 1 /\ k - 1 < finalScan.totalChats
          /\ finalScan.chatIndex = Len(finalScan.visited))
    /\ [][finalScan.consecutiveErrors = maxConsecutiveErrors
            => finalScan'.visited = finalScan.visited]_vars
    /\ <>(finalScan.pc = "done")

\* the scan stopped before the end of the list, after a chat that was
\* accessed and five that failed
C23_Witness ==
    /\ finalScan.pc = "done"
    /\ finalScan.chatIndex < finalScan.totalChats
    /\ finalScan.consecutiveErrors = maxConsecutiveErrors
    /\ \E k \in DOMAIN finalScan.outcomes : finalScan.outcomes[k] = "ok"

\* the key on which a scan compares two messages
ScanKey(m, scanner) ==
    IF scanner = "UseExistingSession"
    THEN <<m.content, m.timestamp, m.senderName>>
    ELSE <<m.content, m.timestamp>>

\* the first position of a key in the messages of one pass
FirstSeenAt(cur, key, scanner) ==
    CHOOSE k \in DOMAIN cur :
        /\ ScanKey(cur[k], scanner) = key
        /\ \A j \in 1..(k - 1) : ScanKey(cur[j], scanner) # key

(* C24: in every per-chat August scan the accumulated list never holds two
   messages with equal content and timestamp (and, in UseExistingSession,
   equal sender name); every message a pass extracted is in the list or
   equal on that key to an entry of it; the list only grows at its end, and
   the entries a pass adds are the first messages of that pass with their
   key, in the order in which the pass returned them. *)
C24_UniqueInOrder ==
    /\ [](LET s == chatScan.scanner
              list == chatScan.augustMessages
              cur == chatScan.currentMessages
          IN  /\ \A a, b \in DOMAIN list :
                    a # b => ScanKey(list[a], s) # ScanKey(list[b], s)
              /\ \A k \in DOMAIN cur : \E j \in DOMAIN list :
                    ScanKey(list[j], s) = ScanKey(cur[k], s))
    /\ [][LET s == chatScan.scanner
              old == chatScan.augustMessages
              new == chatScan'.augustMessages
              cur == chatScan'.currentMessages
          IN  /\ Len(old) <= Len(new)
              /\ SubSeq(new, 1, Len(old)) = old
              /\ \A a \in (Len(old) + 1)..Len(new) :
                    /\ \E k \in DOMAIN cur : ScanKey(cur[k], s) = ScanKey(new[a], s)
                    /\ new[a] = cur[FirstSeenAt(cur, ScanKey(new[a], s), s)]
                    /\ \A b \in (a + 1)..Len(new) :
                          FirstSeenAt(cur, ScanKey(new[a], s), s)
                            < FirstSeenAt(cur, ScanKey(new[b], s), s)]_vars

\* a pass has returned two messages, the second of which was left out
\* because an entry with its content and timestamp is in the list
C24_Witness ==
    /\ chatScan.pc = "scroll"
    /\ Len(chatScan.currentMessages) = 2
    /\ Len(chatScan.augustMessages) = 2
    /\ \E k \in DOMAIN chatScan.currentMessages :
          \A j \in DOMAIN chatScan.augustMessages :
             chatScan.augustMessages[j] # chatScan.currentMessages[k]

(* C25: each per-chat August scan loop makes at most maxScrollAttempts
   extraction passes (20 in AugustMessageFinder, 10 in QuickAugustSearch, 8
   in FinalAugustSearch and ConnectExistingBrowser, 15 in
   ContinueAugustSearch), ends without a further pass as soon as the scroll
   step reports that the top was reached, and always ends. *)
C25_ScanBounded ==
    /\ [](/\ chatScan.passes <= MaxScrollAttempts(chatScan.scanner)
          /\ MaxScrollAttempts("AugustMessageFinder") = 20
          /\ MaxScrollAttempts("QuickAugustSearch") = 10
          /\ MaxScrollAttempts("FinalAugustSearch") = 8
          /\ MaxScrollAttempts("ConnectExistingBrowser") = 8
          /\ MaxScrollAttempts("ContinueAugustSearch") = 15
          /\ chatScan.atTop => chatScan.pc = "done")
    /\ [][/\ (chatScan'.atTop /\ ~chatScan.atTop)
                => (chatScan'.pc = "done" /\ chatScan'.passes = chatScan.passes)
          /\ chatScan.pc = "done" => chatScan'.passes = chatScan.passes]_vars
    /\ <>(chatScan.pc \in {"done", "threw"})

\* a scan that never saw the top has ended after its last allowed pass
C25_Witness ==
    /\ chatScan.scanner = "AugustMessageFinder"
    /\ chatScan.pc = "done"
    /\ ~chatScan.atTop
    /\ chatScan.passes = MaxScrollAttempts(chatScan.scanner)

(* C27: in UseExistingSession.scanChatForAugust, while no August message
   has been found the scan stops once scrollAttempts exceeds 5, after at
   most 7 extraction passes; the found flag is never cleared, and a scan
   that has found a message ends only at the top of the conversation or at
   the limit of 15 passes. *)
C27_GivesUpWithoutAugust ==
    /\ [](chatScan.scanner = "UseExistingSession" =>
            /\ ~chatScan.foundAugustInThisChat => chatScan.passes <= 7
            /\ (/\ ~chatScan.foundAugustInThisChat
                /\ chatScan.scrollAttempts > 5
                /\ chatScan.passes = chatScan.scrollAttempts + 1)
                 => chatScan.pc \in {"done", "threw"}
            /\ chatScan.foundAugustInThisChat = (chatScan.augustMessages # <<>>)
            /\ (chatScan.foundAugustInThisChat /\ chatScan.pc = "done")
                 => (chatScan.atTop \/ chatScan.passes = 15))
    /\ [][chatScan.foundAugustInThisChat
            => chatScan'.foundAugustInThisChat]_vars

\* a scan that found nothing gave up after its seventh pass, before the top
C27_Witness ==
    /\ chatScan.scanner = "UseExistingSession"
    /\ chatScan.pc = "done"
    /\ ~chatScan.foundAugustInThisChat
    /\ ~chatScan.atTop
    /\ chatScan.passes = 7

\* the number of polls without growth at the end of a list of polls
RECURSIVE TrailingIdle(_)
TrailingIdle(p) ==
    IF p = <<>> \/ p[Len(p)] THEN 0
    ELSE 1 + TrailingIdle(SubSeq(p, 1, Len(p) - 1))

(* C26: getAllChats leaves its loading loop exactly when 5 polls in a row
   have shown no count above the highest count seen before: attempts is the
   number of such polls since the last poll that showed growth (growth
   resets it to 0), the loop is left by the break at 5 and never by the
   while test on maxAttempts = 30, and the loop ends. *)
C26_LoadEndsAfterFiveIdlePolls ==
    /\ [](/\ chatLoad.attempts = TrailingIdle(chatLoad.polls)
          /\ chatLoad.pc = "loop" => chatLoad.attempts < 5
          /\ chatLoad.pc = "done" => (chatLoad.attempts = 5 /\ chatLoad.exit = "break")
          /\ chatLoad.attempts < maxAttempts
          /\ chatLoad.exit # "while")
    /\ <>(chatLoad.pc \in {"done", "threw"})

\* the list grew, then five polls showed no growth and the loop was left
C26_Witness ==
    /\ chatLoad.pc = "done"
    /\ chatLoad.previousCount = MaxListItems
    /\ Len(chatLoad.polls) > 5 + MaxListItems

(* C28: scanForAugustMessages scans every private chat before any group
   chat and each discovered chat exactly once; a chat has at most one entry
   in foundAugustChats, its scan has been made, and the entry holds at least
   one message; and the scan of the list ends. *)
C28_PrivateFirstOnce ==
    /\ [](LET done == augustScan.scanned
              found == augustScan.foundAugustChats
              all == {augustScan.chats[k] : k \in DOMAIN augustScan.chats}
          IN  /\ \A a, b \in DOMAIN done : a # b => done[a] # done[b]
              /\ \A a \in DOMAIN done : done[a] \in all
              /\ \A a, b \in DOMAIN done :
                    (a < b /\ done[a].isGroup) => done[b].isGroup
              /\ \A c \in all :
                    (~c.isGroup /\ \E a \in DOMAIN done : done[a].isGroup)
                       => \E b \in DOMAIN done : done[b] = c
              /\ augustScan.pc = "done"
                    => {done[a] : a \in DOMAIN done} = all
              /\ \A a, b \in DOMAIN found : a # b => found[a].chat # found[b].chat
              /\ \A a \in DOMAIN found :
                    /\ Len(found[a].messages) > 0
                    /\ \E b \in DOMAIN done : done[b] = found[a].chat)
    /\ <>(augustScan.pc = "done")

\* a list that names a group before a private chat has been scanned, and
\* some but not all of its chats had August messages
C28_Witness ==
    /\ augustScan.pc = "done"
    /\ Len(augustScan.chats) = MaxDiscovered
    /\ augustScan.chats[1].isGroup /\ ~augustScan.chats[2].isGroup
    /\ Len(augustScan.foundAugustChats) \in 1..(MaxDiscovered - 1)

\* the number of messages held under the keys `keys` of an exported chats map
RECURSIVE MessagesUnder(_, _)
MessagesUnder(map, keys) ==
    IF keys = {} THEN 0
    ELSE LET n == CHOOSE x \in keys : TRUE
         IN  Len(map[n].messages) + MessagesUnder(map, keys \ {n})

(* C29: in every August export the reported message total is the number of
   messages held in the exported chats map and the reported number of chats
   is the number of keys of that map, for every list of found chats, lists
   in which two chats have the same display name included. *)
C29_ExportTotalsMatch ==
    augustExport.pc \in {"built", "written", "failed"} =>
        LET data == augustExport.exportData
        IN  /\ data.totalMessages = MessagesUnder(data.chats, DOMAIN data.chats)
            /\ data.totalChats = Cardinality(DOMAIN data.chats)

(* C30: WhatsAppWebScraper.scrollChatList terminates.  Its loop goes on
   while no two successive readings of the scroll height were equal and is
   left at the first pair that is; with a chat list whose height stops
   growing that happens after finitely many passes, whose number has no cap,
   whereas ContinueAugustSearch.scrollChatList makes at most 10 passes. *)
C30_ListScrollTerminates ==
    /\ [](LET r == listScroll.readings
          IN  /\ listScroll.attempts = Len(r) - 1
              /\ listScroll.scroller = "WhatsAppWebScraper" =>
                    /\ \A k \in 1..(Len(r) - 2) : r[k] # r[k + 1]
                    /\ listScroll.pc = "done"
                          => (Len(r) >= 2 /\ r[Len(r) - 1] = r[Len(r)])
              /\ listScroll.scroller = "ContinueAugustSearch" =>
                    listScroll.attempts <= 10)
    /\ [][(listScroll.scroller = "WhatsAppWebScraper"
             /\ Len(listScroll.readings) >= 2
             /\ listScroll.readings[Len(listScroll.readings) - 1]
                  = listScroll.readings[Len(listScroll.readings)])
            => listScroll'.readings = listScroll.readings]_vars
    /\ <>(listScroll.pc \in {"done", "threw"})

\* the loop of WhatsAppWebScraper has ended after more passes than the cap
\* of ContinueAugustSearch allows
C30_Witness ==
    /\ listScroll.scroller = "WhatsAppWebScraper"
    /\ listScroll.pc = "done"
    /\ listScroll.attempts > 10

=============================================================================
